---- MODULE Spec2Model ----
(***************************************************************************)
(* BlobRepo::create_changeset (blobrepo/src/repo.rs): the commit pipeline  *)
(* over the blobstore and the heads, filenodes and changesets indices,     *)
(* with commits wired together through ChangesetHandles.                   *)
(*                                                                         *)
(* Every builder (one create_changeset call) is a graph of futures.  Each  *)
(* action below is one completion of one future of that graph: a put, an   *)
(* index write, the arrival of a signal.  Futures joined with `join` run   *)
(* concurrently, so their completions interleave; the first error of a     *)
(* join resolves the whole builder and drops what is still in flight.      *)
(***************************************************************************)
EXTENDS Naturals, FiniteSets, Sequences, TLC

\* Bounds of the model.
MaxCommits == 2
NumEntries == 2
ChainLen == 3
NumPaths == 2
MaxFanOut == 2
NumUploads == 4
RingSize == 2
MaxHeads == 2

\* The amount given to buffer_unordered in blobimport.
BufferAmount == 100

Commits == 1..MaxCommits
\* Entry 1 is the root manifest, the others are the new child entries.
Entries == 1..NumEntries
RootEntry == 1
\* "no parent handle" (Option::None)
NoParent == 0

VARIABLES
    par,          \* par[c] = <<p1, p2>>: the parent handles given to builder c
    uploaded,     \* uploaded[c]: entries whose upload_entry future has resolved
    pdata,        \* pdata[c]: handle_parents has resolved (parents_data)
    fence,        \* fence[c]: completed parts of save.join(heads.add).join(finalize)
    canBeParent,  \* the can_be_parent signal of c's handle
    completion,   \* the completion signal of c's handle
    blobstore,    \* keys present in the blobstore
    heads,        \* the heads index
    filenodes,    \* the filenodes index
    changesets,   \* the changesets index: ChangesetRecords
    inflight,     \* blobstore puts that have been issued and have not resolved
    frontier,     \* BlobChangesetStream.heads: the ids still to be pulled
    seen,         \* BlobChangesetStream.seen
    bcstate,      \* BlobChangesetStream.state: <<"Idle">> or <<"WaitCS", id>>
    yielded,      \* the ids the stream has yielded, in order
    store,        \* a Blobstore seen through its trait: key -> value or None
    completed,    \* the puts of that Blobstore whose future has completed
    resp,         \* the result of the last read: <<op, <<args>>, tag, <<value>>>>
    sameAs,       \* sameAs[c] = d: builder c was given the very commit of builder d
    supplied      \* supplied[c]: the entries given to builder c, when not all of them

vars == <<par, uploaded, pdata, fence, canBeParent, completion,
          blobstore, heads, filenodes, changesets,
          inflight, frontier, seen, bcstate, yielded, store, completed, resp,
          sameAs, supplied>>

\* What the commit pipeline leaves alone: the put-level view of the blobstore, the
\* changeset stream, the results of reads and which commit a builder was given.
auxVars == <<inflight, frontier, seen, bcstate, yielded, store, completed, resp,
             sameAs, supplied>>

\* The changeset id of the commit built by builder c: the hash of the changeset
\* blob.  Builders given commits of different content get different ids; a builder
\* given the entries, parents and metadata of another one gets the id of that one.
CsId(c) == IF c \in DOMAIN sameAs THEN sameAs[c] ELSE c

\* Blobstore keys.  sha1-<hex> and node:<hex> of an entry, and the changeset blob.
ContentKey(c, e) == <<"sha1", CsId(c), e>>
NodeKey(c, e) == <<"node", CsId(c), e>>
ChangesetKey(c) == <<"cs", c, 0>>

\* The two puts of upload_entry for entry e: content_upload and node_upload.
EntryKeys(c, e) == {ContentKey(c, e), NodeKey(c, e)}

\* The entries that root_manifest and new_child_entries deliver to builder c.
EntriesOf(c) == IF c \in DOMAIN supplied THEN supplied[c] ELSE Entries

FenceOps == {"save", "heads", "finalize"}

Pending == "pending"
ErrorKinds == {"BackendError", "Canceled", "ParentsFailed", "ManifestMissing",
               "CycleDetected", "InconsistentEntries", "MissingRootManifest"}

\* The parent handles of c that are present.
Parents(c) == {p \in {par[c][1], par[c][2]} : p # NoParent}

\* The builders of the model: the create_changeset calls that may be made.
Handles == DOMAIN completion

Created(c) == canBeParent[c] # "none"
Running(c) == completion[c] = Pending

\* No read operation has returned yet.
NoResp == <<"none", <<>>, "none", <<>>>>

\* No separate put is in flight, no stream is open and no read has been made.
AuxIdle ==
    /\ inflight = {}
    /\ frontier = <<>>
    /\ seen = {}
    /\ bcstate = <<"Idle">>
    /\ yielded = <<>>
    /\ store = <<>>
    /\ completed = {}
    /\ resp = NoResp
    /\ sameAs = <<>>
    /\ supplied = <<>>

Init ==
    /\ par = [c \in Commits |-> <<NoParent, NoParent>>]
    /\ uploaded = [c \in Commits |-> {}]
    /\ pdata = [c \in Commits |-> FALSE]
    /\ fence = [c \in Commits |-> {}]
    /\ canBeParent = [c \in Commits |-> "none"]
    /\ completion = [c \in Commits |-> "none"]
    /\ blobstore = {}
    /\ heads = {}
    /\ filenodes = {}
    /\ changesets = {}
    /\ AuxIdle

\* create_changeset returns the handle at once; nothing has run yet.
CreateChangeset(c, p1, p2) ==
    /\ ~Created(c)
    /\ \A d \in Handles : d < c => Created(d)
    /\ \A p \in {p1, p2} : p = NoParent \/ (p \in Handles /\ Created(p))
    /\ par' = [par EXCEPT ![c] = <<p1, p2>>]
    /\ canBeParent' = [canBeParent EXCEPT ![c] = Pending]
    /\ completion' = [completion EXCEPT ![c] = Pending]
    /\ UNCHANGED <<uploaded, pdata, fence, blobstore, heads, filenodes, changesets>>
    /\ UNCHANGED auxVars

\* Faulty variant of Fail: the error resolves completion only; a sender that has
\* not sent is kept alive, so can_be_parent stays pending.
Fail_KeepSender(c, kind) ==
    /\ completion' = [completion EXCEPT ![c] = kind]
    /\ UNCHANGED canBeParent
    /\ uploaded' = [uploaded EXCEPT ![c] = {}]
    /\ pdata' = [pdata EXCEPT ![c] = FALSE]
    /\ fence' = [fence EXCEPT ![c] = {}]

\* The builder's future resolves to an error: the shared completion future latches
\* it and drops the pipeline, and with it the oneshot sender if it has not sent.
Fail(c, kind) ==
    /\ completion' = [completion EXCEPT ![c] = kind]
    /\ canBeParent' = [canBeParent EXCEPT
                         ![c] = IF @ = Pending THEN "err" ELSE @]
    /\ uploaded' = [uploaded EXCEPT ![c] = {}]
    /\ pdata' = [pdata EXCEPT ![c] = FALSE]
    /\ fence' = [fence EXCEPT ![c] = {}]

\* Faulty variant of UploadEntryOk: the entry is handed over without its blobs
\* having been written.
UploadEntryOk_NoPut(c, e) ==
    /\ Running(c)
    /\ fence[c] = {}
    /\ e \in EntriesOf(c) \ uploaded[c]
    /\ uploaded' = [uploaded EXCEPT ![c] = @ \cup {e}]
    /\ UNCHANGED <<par, pdata, fence, canBeParent, completion,
                   blobstore, heads, filenodes, changesets>>
    /\ UNCHANGED auxVars

\* Faulty variant of UploadEntryOk: the filenode of the entry is inserted into the
\* filenodes index as soon as the entry is uploaded.
UploadEntryOk_WritesFilenode(c, e) ==
    /\ Running(c)
    /\ fence[c] = {}
    /\ e \in EntriesOf(c) \ uploaded[c]
    /\ uploaded' = [uploaded EXCEPT ![c] = @ \cup {e}]
    /\ blobstore' = blobstore \cup EntryKeys(c, e)
    /\ filenodes' = filenodes \cup {<<CsId(c), e, CsId(c)>>}
    /\ UNCHANGED <<par, pdata, fence, canBeParent, completion, heads, changesets>>
    /\ UNCHANGED auxVars

\* Faulty variant of UploadEntryOk: the entry is handed over when its content blob
\* is written, without its node record.
UploadEntryOk_ContentOnly(c, e) ==
    /\ Running(c)
    /\ fence[c] = {}
    /\ e \in EntriesOf(c) \ uploaded[c]
    /\ uploaded' = [uploaded EXCEPT ![c] = @ \cup {e}]
    /\ blobstore' = blobstore \cup {ContentKey(c, e)}
    /\ UNCHANGED <<par, pdata, fence, canBeParent, completion,
                   heads, filenodes, changesets>>
    /\ UNCHANGED auxVars

\* The future returned by upload_entry for entry e resolves:
\* content_upload.join(node_upload) has completed, both puts are done, and
\* process_entries hands the entry to the entry processor.
UploadEntryOk(c, e) ==
    /\ Running(c)
    /\ fence[c] = {}
    /\ e \in EntriesOf(c) \ uploaded[c]
    /\ uploaded' = [uploaded EXCEPT ![c] = @ \cup {e}]
    /\ blobstore' = blobstore \cup EntryKeys(c, e)
    /\ UNCHANGED <<par, pdata, fence, canBeParent, completion,
                   heads, filenodes, changesets>>
    /\ UNCHANGED auxVars

\* The future returned by upload_entry for entry e resolves to an error (a put
\* failed): the join fails, and with it process_entries and the builder.  The keys
\* of the failing entry are taken as not written; the blobs of the entries uploaded
\* before stay in the store.
UploadEntryFail(c, e) ==
    /\ Running(c)
    /\ fence[c] = {}
    /\ e \in EntriesOf(c) \ uploaded[c]
    /\ Fail(c, "BackendError")
    /\ UNCHANGED <<par, blobstore, heads, filenodes, changesets>>
    /\ UNCHANGED auxVars

\* process_entries has handed every entry to the entry processor.
UploadEntriesDone(c) == uploaded[c] = EntriesOf(c)

\* get_manifest_by_nodeid / get_root_entry(..).get_content(): the root manifest of
\* commit p can be loaded when its node record and its content blob are present.
ManifestPresent(p) ==
    /\ NodeKey(p, RootEntry) \in blobstore
    /\ ContentKey(p, RootEntry) \in blobstore

\* handle_parents: every parent's can_be_parent has delivered (cs_id, manifest_id);
\* the parents' root manifests are then loaded from the blobstore.
HandleParents(c) ==
    /\ Running(c)
    /\ ~pdata[c]
    /\ fence[c] = {}
    /\ \A p \in Parents(c) : canBeParent[p] = "ok"
    /\ IF \A p \in Parents(c) : ManifestPresent(p)
         THEN /\ pdata' = [pdata EXCEPT ![c] = TRUE]
              /\ UNCHANGED <<uploaded, fence, canBeParent, completion>>
         ELSE Fail(c, "ManifestMissing")
    /\ UNCHANGED <<par, blobstore, heads, filenodes, changesets>>
    /\ UNCHANGED auxVars

\* handle_parents: a parent's can_be_parent resolves to an error (its sender was
\* dropped without sending); the error propagates through
\* upload_entries.join(parents_data).
HandleParentsFail(c) ==
    /\ Running(c)
    /\ ~pdata[c]
    /\ fence[c] = {}
    /\ \E p \in Parents(c) : canBeParent[p] = "err"
    /\ Fail(c, "Canceled")
    /\ UNCHANGED <<par, blobstore, heads, filenodes, changesets>>
    /\ UNCHANGED auxVars

\* A parent handle of c has delivered the changeset id of c itself.
SelfLoop(c) == \E p \in Parents(c) : CsId(p) = CsId(c)

\* make_new_changeset(parents, root_hash, ..): the changeset is built from the
\* parents' ids, and with it its own id; a parent bearing that id is rejected.
MakeNewChangeset(c) == IF SelfLoop(c) THEN "CycleDetected" ELSE "ok"

\* Faulty variant of FenceReady: the fence does not wait for parents_data.
FenceReady_NoParents(c) ==
    /\ Running(c)
    /\ canBeParent[c] = Pending
    /\ UploadEntriesDone(c)

\* Faulty variant of FenceReady: the result of make_new_changeset is not looked at.
FenceReady_ErrorIgnored(c) ==
    /\ Running(c)
    /\ canBeParent[c] = Pending
    /\ UploadEntriesDone(c)
    /\ pdata[c]

\* Faulty variant of FenceReady: the fence also waits for parents_complete.
FenceReady_AwaitsParentsComplete(c) ==
    /\ Running(c)
    /\ canBeParent[c] = Pending
    /\ UploadEntriesDone(c)
    /\ pdata[c]
    /\ MakeNewChangeset(c) = "ok"
    /\ \A p \in Parents(c) : completion[p] = "ok"

\* upload_entries.join(parents_data) has resolved, compute_changed_files and
\* make_new_changeset have returned a changeset: the finalization fence may run.
FenceReady(c) ==
    /\ Running(c)
    /\ canBeParent[c] = Pending
    /\ UploadEntriesDone(c)
    /\ pdata[c]
    /\ MakeNewChangeset(c) = "ok"

\* try_boxfuture!(make_new_changeset(..)): the error is returned in place of the
\* fence, and the builder fails with it.
MakeNewChangesetFail(c) ==
    /\ Running(c)
    /\ canBeParent[c] = Pending
    /\ UploadEntriesDone(c)
    /\ pdata[c]
    /\ MakeNewChangeset(c) # "ok"
    /\ Fail(c, MakeNewChangeset(c))
    /\ UNCHANGED <<par, blobstore, heads, filenodes, changesets>>
    /\ UNCHANGED auxVars

\* The filenodes that finalize(filenodes, cs_id) inserts: one per entry handed to
\* the entry processor, stamped with the linknode cs_id.
FilenodesOf(c) == {<<CsId(c), e, CsId(c)>> : e \in EntriesOf(c)}

\* The children that a tree entry refers to: the root manifest refers to the next
\* entry, which refers to the one after it, and so on down to a file.
Children(e) == {e + 1} \cap Entries

\* UploadEntries::finalize, steps 1 and 2, on a set of added entries.
FinalizeCheck(added) ==
    IF ~(UNION {Children(e) : e \in added} \subseteq added) THEN "InconsistentEntries"
    ELSE IF RootEntry \notin added THEN "MissingRootManifest"
    ELSE "ok"

\* entry_processor.finalize(filenodes, cs_id) on what add_entry has recorded.
Finalize(c) == FinalizeCheck(uploaded[c])

\* Faulty variant of FenceOk: heads.add replaces the heads by the new one.
FenceOk_HeadsReplaced(c, op) ==
    /\ FenceReady(c)
    /\ op \notin fence[c]
    /\ op = "finalize" => Finalize(c) = "ok"
    /\ fence' = [fence EXCEPT ![c] = @ \cup {op}]
    /\ blobstore' = IF op = "save" THEN blobstore \cup {ChangesetKey(CsId(c))}
                                   ELSE blobstore
    /\ heads' = IF op = "heads" THEN {CsId(c)} ELSE heads
    /\ filenodes' = IF op = "finalize" THEN filenodes \cup FilenodesOf(c)
                                       ELSE filenodes
    /\ UNCHANGED <<par, uploaded, pdata, canBeParent, completion, changesets>>
    /\ UNCHANGED auxVars

\* Faulty variant of FenceOk: finalize submits the filenodes whatever was added.
FenceOk_FinalizeUnchecked(c, op) ==
    /\ FenceReady(c)
    /\ op \notin fence[c]
    /\ fence' = [fence EXCEPT ![c] = @ \cup {op}]
    /\ blobstore' = IF op = "save" THEN blobstore \cup {ChangesetKey(CsId(c))}
                                   ELSE blobstore
    /\ heads' = IF op = "heads" THEN heads \cup {CsId(c)} ELSE heads
    /\ filenodes' = IF op = "finalize" THEN filenodes \cup FilenodesOf(c)
                                       ELSE filenodes
    /\ UNCHANGED <<par, uploaded, pdata, canBeParent, completion, changesets>>
    /\ UNCHANGED auxVars

\* Faulty variant of FenceOk: adding the new head takes the parents of the new
\* commit out of the heads.
FenceOk_ParentHeadsRemoved(c, op) ==
    /\ FenceReady(c)
    /\ op \notin fence[c]
    /\ op = "finalize" => Finalize(c) = "ok"
    /\ fence' = [fence EXCEPT ![c] = @ \cup {op}]
    /\ blobstore' = IF op = "save" THEN blobstore \cup {ChangesetKey(CsId(c))}
                                   ELSE blobstore
    /\ heads' = IF op = "heads"
                  THEN (heads \ {CsId(p) : p \in Parents(c)}) \cup {CsId(c)}
                  ELSE heads
    /\ filenodes' = IF op = "finalize" THEN filenodes \cup FilenodesOf(c)
                                       ELSE filenodes
    /\ UNCHANGED <<par, uploaded, pdata, canBeParent, completion, changesets>>
    /\ UNCHANGED auxVars

\* blobcs.save(blobstore).join(heads.add(&cs_id)).join(finalize(filenodes, cs_id)):
\* one of the three completes.
FenceOk(c, op) ==
    /\ FenceReady(c)
    /\ op \notin fence[c]
    /\ op = "finalize" => Finalize(c) = "ok"
    /\ fence' = [fence EXCEPT ![c] = @ \cup {op}]
    /\ blobstore' = IF op = "save" THEN blobstore \cup {ChangesetKey(CsId(c))}
                                   ELSE blobstore
    /\ heads' = IF op = "heads" THEN heads \cup {CsId(c)} ELSE heads
    /\ filenodes' = IF op = "finalize" THEN filenodes \cup FilenodesOf(c)
                                       ELSE filenodes
    /\ UNCHANGED <<par, uploaded, pdata, canBeParent, completion, changesets>>
    /\ UNCHANGED auxVars

\* entry_processor.finalize(filenodes, cs_id) rejects what was added: the join of
\* the fence fails, and with it the builder.  Nothing is submitted to filenodes.
FinalizeFail(c) ==
    /\ FenceReady(c)
    /\ "finalize" \notin fence[c]
    /\ Finalize(c) # "ok"
    /\ Fail(c, Finalize(c))
    /\ UNCHANGED <<par, blobstore, heads, filenodes, changesets>>
    /\ UNCHANGED auxVars

\* One of the three fails: the join fails, the other two are dropped where they
\* are, and what they have already written stays.
FenceFail(c, op) ==
    /\ FenceReady(c)
    /\ op \notin fence[c]
    /\ Fail(c, "BackendError")
    /\ UNCHANGED <<par, blobstore, heads, filenodes, changesets>>
    /\ UNCHANGED auxVars

\* Faulty variant of SignalParentReady: finalize is not joined into the fence.
SignalParentReady_NoFinalize(c) ==
    /\ FenceReady(c)
    /\ {"save", "heads"} \subseteq fence[c]
    /\ canBeParent' = [canBeParent EXCEPT ![c] = "ok"]
    /\ UNCHANGED <<par, uploaded, pdata, fence, completion,
                   blobstore, heads, filenodes, changesets>>
    /\ UNCHANGED auxVars

\* Faulty variant of SignalParentReady: the signal is sent as soon as one part of
\* the fence has completed.
SignalParentReady_FirstPart(c) ==
    /\ FenceReady(c)
    /\ fence[c] # {}
    /\ canBeParent' = [canBeParent EXCEPT ![c] = "ok"]
    /\ UNCHANGED <<par, uploaded, pdata, fence, completion,
                   blobstore, heads, filenodes, changesets>>
    /\ UNCHANGED auxVars

\* .map(move |_| { let _ = signal_parent_ready.send((cs_id, manifest_id)); })
SignalParentReady(c) ==
    /\ FenceReady(c)
    /\ fence[c] = FenceOps
    /\ canBeParent' = [canBeParent EXCEPT ![c] = "ok"]
    /\ UNCHANGED <<par, uploaded, pdata, fence, completion,
                   blobstore, heads, filenodes, changesets>>
    /\ UNCHANGED auxVars

\* The `changeset` future of builder c has resolved successfully.
ChangesetBuilt(c) == Running(c) /\ canBeParent[c] = "ok"

\* extract_parents_complete: the join of the parents' completion futures;
\* immediately ok when both handles are absent.
ParentsComplete(c) ==
    IF \E p \in Parents(c) : completion[p] \in ErrorKinds THEN "err"
    ELSE IF \A p \in Parents(c) : completion[p] = "ok" THEN "ok"
    ELSE Pending

\* Faulty variant of ParentsFailed: the error of the parents is applied even to a
\* completion that has already resolved.
ParentsFailed_Unlatched(c) ==
    /\ Created(c)
    /\ completion[c] # "ParentsFailed"
    /\ ParentsComplete(c) = "err"
    /\ Fail(c, "ParentsFailed")
    /\ UNCHANGED <<par, blobstore, heads, filenodes, changesets>>
    /\ UNCHANGED auxVars

\* parents_complete.map_err(|e| ErrorKind::ParentsFailed.context(e).into()) inside
\* changeset.join(parents_complete): a parent's completion is an error.
ParentsFailed(c) ==
    /\ Running(c)
    /\ ParentsComplete(c) = "err"
    /\ Fail(c, "ParentsFailed")
    /\ UNCHANGED <<par, blobstore, heads, filenodes, changesets>>
    /\ UNCHANGED auxVars

\* The record lookup of the changesets index.
RecordOf(id) == {r \in changesets : r.cs_id = id}
HasRecord(id) == RecordOf(id) # {}

Max(S) == IF S = {} THEN 0 ELSE CHOOSE x \in S : \A y \in S : y <= x

\* Changesets::add computes the generation number from the parents' records.
GenOf(parents) ==
    1 + Max({r.gen : r \in {q \in changesets :
                              \E i \in 1..Len(parents) : parents[i] = q.cs_id}})

\* Faulty variant of ParentIds: only p1 goes into the changeset.
ParentIds_FirstOnly(c) ==
    IF par[c][1] # NoParent THEN <<CsId(par[c][1])>> ELSE <<>>

\* cs.parents(): the changeset ids delivered by the parent handles, p1 first.
ParentIds(c) ==
    LET present(p) == p # NoParent
    IN  [i \in 1..Len(SelectSeq(par[c], present)) |->
            CsId(SelectSeq(par[c], present)[i])]

\* Faulty variant of ChangesetInsert: the parents of the record are put in
\* ascending order of their ids.
ChangesetInsert_ParentsSorted(c) ==
    [cs_id |-> CsId(c),
     parents |-> IF Len(ParentIds(c)) = 2 /\ ParentIds(c)[1] > ParentIds(c)[2]
                   THEN <<ParentIds(c)[2], ParentIds(c)[1]>>
                   ELSE ParentIds(c),
     gen |-> GenOf(ParentIds(c))]

\* ChangesetInsert { repo_id, cs_id, parents } as stored by the changesets index.
ChangesetInsert(c) ==
    [cs_id |-> CsId(c), parents |-> ParentIds(c), gen |-> GenOf(ParentIds(c))]

\* Faulty variant of ChangesetsAdd: the record is inserted without waiting for
\* parents_complete.
ChangesetsAdd_NoParentFence(c) ==
    /\ ChangesetBuilt(c)
    /\ changesets' = changesets \cup {ChangesetInsert(c)}
    /\ completion' = [completion EXCEPT ![c] = "ok"]
    /\ UNCHANGED <<par, uploaded, pdata, fence, canBeParent,
                   blobstore, heads, filenodes>>
    /\ UNCHANGED auxVars

\* Faulty variant of ChangesetsAdd: record insertions are serialised in the order
\* of the create_changeset calls, related or not.
ChangesetsAdd_Serialised(c) ==
    /\ ChangesetBuilt(c)
    /\ ParentsComplete(c) = "ok"
    /\ \A d \in Handles : d < c => completion[d] = "ok"
    /\ changesets' = changesets \cup {ChangesetInsert(c)}
    /\ completion' = [completion EXCEPT ![c] = "ok"]
    /\ UNCHANGED <<par, uploaded, pdata, fence, canBeParent,
                   blobstore, heads, filenodes>>
    /\ UNCHANGED auxVars

\* Faulty variant of ChangesetsAdd: the index refuses a record whose id it holds.
ChangesetsAdd_RejectDuplicate(c) ==
    /\ ChangesetBuilt(c)
    /\ ParentsComplete(c) = "ok"
    /\ ~HasRecord(CsId(c))
    /\ changesets' = changesets \cup {ChangesetInsert(c)}
    /\ completion' = [completion EXCEPT ![c] = "ok"]
    /\ UNCHANGED <<par, uploaded, pdata, fence, canBeParent,
                   blobstore, heads, filenodes>>
    /\ UNCHANGED auxVars

\* Faulty variant of ChangesetsAdd: the completion future of a parent is not shared;
\* it gives its value to the first builder that awaits it and to no other.
ChangesetsAdd_CompletionUnshared(c) ==
    /\ ChangesetBuilt(c)
    /\ ParentsComplete(c) = "ok"
    /\ \A d \in Handles \ {c} :
          Parents(d) \cap Parents(c) # {} => completion[d] # "ok"
    /\ changesets' = changesets \cup {ChangesetInsert(c)}
    /\ completion' = [completion EXCEPT ![c] = "ok"]
    /\ UNCHANGED <<par, uploaded, pdata, fence, canBeParent,
                   blobstore, heads, filenodes>>
    /\ UNCHANGED auxVars

\* changeset.join(parents_complete).and_then(|(cs, _)| complete_changesets.add(..))
ChangesetsAdd(c) ==
    /\ ChangesetBuilt(c)
    /\ ParentsComplete(c) = "ok"
    /\ changesets' = changesets \cup {ChangesetInsert(c)}
    /\ completion' = [completion EXCEPT ![c] = "ok"]
    /\ UNCHANGED <<par, uploaded, pdata, fence, canBeParent,
                   blobstore, heads, filenodes>>
    /\ UNCHANGED auxVars

\* complete_changesets.add fails.
ChangesetsAddFail(c) ==
    /\ ChangesetBuilt(c)
    /\ ParentsComplete(c) = "ok"
    /\ Fail(c, "BackendError")
    /\ UNCHANGED <<par, blobstore, heads, filenodes, changesets>>
    /\ UNCHANGED auxVars

\* get_heads: the ids of the heads index.
GetHeads == heads

\* changeset_exists: changesets.get(repoid, id).map(|res| res.is_some())
ChangesetExists(id) == HasRecord(id)

\* get_generation_number: changesets.get(repoid, id).map(|res| res.map(|res| res.gen))
GetGenerationNumber(id) ==
    IF HasRecord(id) THEN <<"Some", (CHOOSE r \in RecordOf(id) : TRUE).gen>>
                     ELSE <<"None">>

\* BlobChangeset::load for get_changeset_by_changesetid: the changeset blob is there.
ChangesetLoadable(id) == ChangesetKey(id) \in blobstore

\* The parents stored in the changeset blob of id (make_new_changeset(parents, ..)).
BlobParents(id) == UNION {Parents(c) : c \in {d \in Handles : CsId(d) = id}}

RECURSIVE StreamClosure(_, _)
StreamClosure(S, n) ==
    IF n = 0 THEN S
    ELSE StreamClosure(
           S \cup {p \in UNION {BlobParents(id) : id \in S} : ChangesetLoadable(p)},
           n - 1)

\* get_changesets: the ids that a BlobChangesetStream started in this state can
\* yield: the heads whose changeset loads, then the parents of what it has yielded.
StreamIds ==
    StreamClosure({h \in heads : ChangesetLoadable(h)}, Cardinality(Handles))

Next ==
    \/ \E c \in Handles, p1, p2 \in {NoParent} \cup Handles : CreateChangeset(c, p1, p2)
    \/ \E c \in Handles, e \in Entries : UploadEntryOk(c, e)
    \/ \E c \in Handles, e \in Entries : UploadEntryFail(c, e)
    \/ \E c \in Handles : HandleParents(c)
    \/ \E c \in Handles : HandleParentsFail(c)
    \/ \E c \in Handles, op \in FenceOps : FenceOk(c, op)
    \/ \E c \in Handles, op \in FenceOps : FenceFail(c, op)
    \/ \E c \in Handles : SignalParentReady(c)
    \/ \E c \in Handles : ParentsFailed(c)
    \/ \E c \in Handles : ChangesetsAdd(c)
    \/ \E c \in Handles : ChangesetsAddFail(c)

Spec == Init /\ [][Next]_vars

(***************************************************************************)
(* The same builders with every blobstore and index operation succeeding.  *)
(* The completion futures are spawned on the executor, which polls every   *)
(* future that can make progress: weak fairness of the steps.              *)
(***************************************************************************)
NextLive ==
    \/ \E c \in Handles, p1, p2 \in {NoParent} \cup Handles : CreateChangeset(c, p1, p2)
    \/ \E c \in Handles, e \in Entries : UploadEntryOk(c, e)
    \/ \E c \in Handles : HandleParents(c)
    \/ \E c \in Handles, op \in FenceOps : FenceOk(c, op)
    \/ \E c \in Handles : SignalParentReady(c)
    \/ \E c \in Handles : ChangesetsAdd(c)

SpecLive == Init /\ [][NextLive]_vars /\ WF_vars(NextLive)

(***************************************************************************)
(* A linear chain C1 -> C2 -> ... of ChainLen commits with every blobstore *)
(* and index operation succeeding.  create_changeset only builds futures,  *)
(* so after the calls have returned nothing has run: every builder of the  *)
(* chain is started before any commit is durable.  The completion futures *)
(* are spawned on the executor, which polls every future that can make     *)
(* progress: weak fairness of every step.                                  *)
(***************************************************************************)
Chain == 1..ChainLen

InitChain ==
    /\ par = [c \in Chain |-> IF c = 1 THEN <<NoParent, NoParent>>
                                        ELSE <<c - 1, NoParent>>]
    /\ uploaded = [c \in Chain |-> {}]
    /\ pdata = [c \in Chain |-> FALSE]
    /\ fence = [c \in Chain |-> {}]
    /\ canBeParent = [c \in Chain |-> Pending]
    /\ completion = [c \in Chain |-> Pending]
    /\ blobstore = {}
    /\ heads = {}
    /\ filenodes = {}
    /\ changesets = {}
    /\ AuxIdle

NextChain ==
    \/ \E c \in Handles, e \in Entries : UploadEntryOk(c, e)
    \/ \E c \in Handles : HandleParents(c)
    \/ \E c \in Handles, op \in FenceOps : FenceOk(c, op)
    \/ \E c \in Handles : SignalParentReady(c)
    \/ \E c \in Handles : ChangesetsAdd(c)

SpecChain == InitChain /\ [][NextChain]_vars /\ WF_vars(NextChain)

(***************************************************************************)
(* One parent commit and Dependents builders that take its handle as p1,   *)
(* with every blobstore and index operation succeeding.  The entry uploads *)
(* of every builder, which await nothing, have resolved: each dependent is *)
(* at the point where it awaits the parent's handle.  The owner of a       *)
(* dependent builder may drop it at any time: the builder's futures go     *)
(* away, and with them its clones of the parent's two shared signals.      *)
(***************************************************************************)
Dependents == 2
Fan == 1..(1 + Dependents)

\* A handle whose futures have been dropped by their owner.
Dropped == "dropped"

InitFan ==
    /\ AuxIdle
    /\ par = [c \in Fan |-> IF c = 1 THEN <<NoParent, NoParent>>
                                      ELSE <<1, NoParent>>]
    /\ uploaded = [c \in Fan |-> Entries]
    /\ pdata = [c \in Fan |-> FALSE]
    /\ fence = [c \in Fan |-> {}]
    /\ canBeParent = [c \in Fan |-> Pending]
    /\ completion = [c \in Fan |-> Pending]
    /\ blobstore = UNION {EntryKeys(c, e) : c \in Fan, e \in Entries}
    /\ heads = {}
    /\ filenodes = {}
    /\ changesets = {}

\* A running builder holds clones of the shared futures of c.
HasDependents(c) == \E d \in Handles : Running(d) /\ c \in Parents(d)

\* Faulty variant of DropBuilder: dropping a clone of a parent's shared
\* can_be_parent cancels the receiver for everyone.
DropBuilder_CancelsParent(c) ==
    /\ Running(c)
    /\ Parents(c) # {}
    /\ ~HasDependents(c)
    /\ completion' = [completion EXCEPT ![c] = Dropped]
    /\ canBeParent' = [d \in Handles |->
                         IF d = c \/ d \in Parents(c)
                           THEN (IF canBeParent[d] = Pending THEN "err"
                                                             ELSE canBeParent[d])
                           ELSE canBeParent[d]]
    /\ uploaded' = [uploaded EXCEPT ![c] = {}]
    /\ pdata' = [pdata EXCEPT ![c] = FALSE]
    /\ fence' = [fence EXCEPT ![c] = {}]
    /\ UNCHANGED <<par, blobstore, heads, filenodes, changesets>>
    /\ UNCHANGED auxVars

\* The ChangesetHandle of a dependent builder c is dropped while it runs.  Both of
\* its futures are Shared: dropping c's handle drops c's pipeline where it is (what
\* it has written stays) and releases its clones of the parents' Shared futures,
\* whose inner futures live on in the parents' handles.
DropBuilder(c) ==
    /\ Running(c)
    /\ Parents(c) # {}
    /\ ~HasDependents(c)
    /\ completion' = [completion EXCEPT ![c] = Dropped]
    /\ canBeParent' = [canBeParent EXCEPT ![c] = IF @ = Pending THEN Dropped ELSE @]
    /\ uploaded' = [uploaded EXCEPT ![c] = {}]
    /\ pdata' = [pdata EXCEPT ![c] = FALSE]
    /\ fence' = [fence EXCEPT ![c] = {}]
    /\ UNCHANGED <<par, blobstore, heads, filenodes, changesets>>
    /\ UNCHANGED auxVars

NextDrop ==
    \/ \E c \in Handles : HandleParents(c)
    \/ \E c \in Handles, op \in FenceOps : FenceOk(c, op)
    \/ \E c \in Handles : SignalParentReady(c)
    \/ \E c \in Handles : ChangesetsAdd(c)
    \/ \E c \in Handles : DropBuilder(c)

\* The builders that are not dropped are polled by the executor until they resolve.
SpecDrop == InitFan /\ [][NextDrop]_vars /\ WF_vars(NextChain)

(***************************************************************************)
(* BlobRepo::get_changesets: a BlobChangesetStream over a repository at    *)
(* rest.  Every commit graph of GraphSize changesets that create_changeset *)
(* can build (the parents of a changeset are created before it), each      *)
(* commit completed; the heads stream gives any ids of the repository in   *)
(* any order.  Each action is one arm of BlobChangesetStream::poll.        *)
(***************************************************************************)
GraphSize == 3
Nodes == 1..GraphSize

\* The sequences without repetition over S: what a stream over a set can give.
RECURSIVE Orderings(_)
Orderings(S) ==
    {<<>>} \cup UNION {{<<x>> \o t : t \in Orderings(S \ {x})} : x \in S}

\* The generation of changeset c in the graph held by par.
RECURSIVE Generation(_)
Generation(c) == 1 + Max({Generation(p) : p \in Parents(c)})

InitStream ==
    /\ sameAs = <<>>
    /\ supplied = <<>>
    /\ par \in [Nodes -> ({NoParent} \cup Nodes) \X ({NoParent} \cup Nodes)]
    /\ \A c \in Nodes : par[c][1] < c /\ par[c][2] < c
    /\ uploaded = [c \in Nodes |-> Entries]
    /\ pdata = [c \in Nodes |-> TRUE]
    /\ fence = [c \in Nodes |-> FenceOps]
    /\ canBeParent = [c \in Nodes |-> "ok"]
    /\ completion = [c \in Nodes |-> "ok"]
    /\ blobstore = UNION {EntryKeys(c, e) : c \in Nodes, e \in Entries}
                     \cup {ChangesetKey(CsId(c)) : c \in Nodes}
    /\ filenodes = UNION {FilenodesOf(c) : c \in Nodes}
    /\ changesets = {[cs_id |-> CsId(c), parents |-> ParentIds(c),
                      gen |-> Generation(c)] : c \in Nodes}
    \* get_changesets: heads: self.heads.heads(), state: Idle, seen: HashSet::new()
    /\ frontier \in Orderings({CsId(c) : c \in Nodes})
    /\ heads = {frontier[i] : i \in 1..Len(frontier)}
    /\ seen = {}
    /\ bcstate = <<"Idle">>
    /\ yielded = <<>>
    /\ inflight = {}
    /\ store = <<>>
    /\ completed = {}
    /\ resp = NoResp

pipeVars == <<par, uploaded, pdata, fence, canBeParent, completion,
              blobstore, heads, filenodes, changesets, sameAs, supplied>>

\* The stream has returned an error; its consumer stops polling it.
StreamFailed == resp[1] = "get_changesets" /\ resp[3] \notin {"none", "end"}

\* cs.parents() of the changeset blob of id, p1 first.
CsParents(id) == ParentIds(CHOOSE c \in Handles : CsId(c) = id)

\* Faulty variant of PollIdle: the id is loaded whether seen or not.
PollIdle_NoSeen ==
    /\ ~StreamFailed
    /\ bcstate = <<"Idle">>
    /\ frontier # <<>>
    /\ frontier' = Tail(frontier)
    /\ seen' = seen \cup {Head(frontier)}
    /\ bcstate' = <<"WaitCS", Head(frontier)>>
    /\ UNCHANGED <<yielded, resp, inflight, store, completed>>
    /\ UNCHANGED pipeVars

\* Idle, and self.heads.poll() gives Some(next): if self.seen.insert(next) the
\* changeset is requested (WaitCS), else the id is discarded (Idle).
PollIdle ==
    /\ ~StreamFailed
    /\ bcstate = <<"Idle">>
    /\ frontier # <<>>
    /\ frontier' = Tail(frontier)
    /\ IF Head(frontier) \notin seen
         THEN /\ seen' = seen \cup {Head(frontier)}
              /\ bcstate' = <<"WaitCS", Head(frontier)>>
         ELSE UNCHANGED <<seen, bcstate>>
    /\ UNCHANGED <<yielded, resp, inflight, store, completed>>
    /\ UNCHANGED pipeVars

\* Idle, and self.heads.poll() gives None: the stream ends, (Some(None), Idle).
PollEnd ==
    /\ ~StreamFailed
    /\ bcstate = <<"Idle">>
    /\ frontier = <<>>
    /\ resp' = <<"get_changesets", <<>>, "end", <<>>>>
    /\ UNCHANGED <<frontier, seen, bcstate, yielded, inflight, store, completed>>
    /\ UNCHANGED pipeVars

\* Faulty variant of PollLoaded: the parents go in front of the frontier.
PollLoaded_DepthFirst ==
    /\ ~StreamFailed
    /\ bcstate[1] = "WaitCS"
    /\ ChangesetLoadable(bcstate[2])
    /\ frontier' = CsParents(bcstate[2]) \o frontier
    /\ yielded' = Append(yielded, bcstate[2])
    /\ bcstate' = <<"Idle">>
    /\ UNCHANGED <<seen, resp, inflight, store, completed>>
    /\ UNCHANGED pipeVars

\* Faulty variant of PollLoaded: the parents are chained behind the frontier with
\* p2 before p1.
PollLoaded_SecondParentFirst ==
    /\ ~StreamFailed
    /\ bcstate[1] = "WaitCS"
    /\ ChangesetLoadable(bcstate[2])
    /\ frontier' = frontier \o [i \in 1..Len(CsParents(bcstate[2])) |->
                                  CsParents(bcstate[2])[Len(CsParents(bcstate[2])) + 1 - i]]
    /\ yielded' = Append(yielded, bcstate[2])
    /\ bcstate' = <<"Idle">>
    /\ UNCHANGED <<seen, resp, inflight, store, completed>>
    /\ UNCHANGED pipeVars

\* WaitCS(next, csfut), and csfut gives the changeset: its parents are chained
\* behind what is left of self.heads, and next is yielded.
PollLoaded ==
    /\ ~StreamFailed
    /\ bcstate[1] = "WaitCS"
    /\ ChangesetLoadable(bcstate[2])
    /\ frontier' = frontier \o CsParents(bcstate[2])
    /\ yielded' = Append(yielded, bcstate[2])
    /\ bcstate' = <<"Idle">>
    /\ UNCHANGED <<seen, resp, inflight, store, completed>>
    /\ UNCHANGED pipeVars

\* WaitCS(next, csfut), and csfut gives an error (the blobstore's): try_ready!
\* returns it from poll with the state left as it is.
PollLoadFail ==
    /\ ~StreamFailed
    /\ bcstate[1] = "WaitCS"
    /\ resp' = <<"get_changesets", <<bcstate[2]>>, "BackendError", <<>>>>
    /\ UNCHANGED <<frontier, seen, bcstate, yielded, inflight, store, completed>>
    /\ UNCHANGED pipeVars

NextStream ==
    \/ PollIdle
    \/ PollEnd
    \/ PollLoaded
    \/ PollLoadFail

SpecStream == InitStream /\ [][NextStream]_vars

(***************************************************************************)
(* The Blobstore trait (blobstore/src/lib.rs).  get and put are the        *)
(* implementation's; they are taken as the trait's contract states them:   *)
(* a put takes effect whole at one instant between its call and the        *)
(* completion of its future (a delegating wrapper only moves that instant  *)
(* and the completion), a put that fails may or may not have taken effect, *)
(* a get reads without writing, and any get may fail with a backend error. *)
(* is_present and assert_present are the trait's default methods.          *)
(***************************************************************************)
NumKeys == 2
MaxPuts == 2

Keys == 1..NumKeys
\* Two different byte strings.
Values == {"v1", "v2"}

\* Option<BlobstoreBytes>: None is <<>>, Some(v) is <<v>>.
None == <<>>
Some(v) == <<v>>

\* No create_changeset is running.
PipeIdle ==
    /\ par = <<>>
    /\ uploaded = <<>>
    /\ pdata = <<>>
    /\ fence = <<>>
    /\ canBeParent = <<>>
    /\ completion = <<>>
    /\ blobstore = {}
    /\ heads = {}
    /\ filenodes = {}
    /\ changesets = {}
    /\ sameAs = <<>>
    /\ supplied = <<>>

InitStore ==
    /\ store = [k \in Keys |-> None]
    /\ inflight = {}
    /\ completed = {}
    /\ resp = NoResp
    /\ frontier = <<>>
    /\ seen = {}
    /\ bcstate = <<"Idle">>
    /\ yielded = <<>>
    /\ PipeIdle

streamVars == <<frontier, seen, bcstate, yielded>>

\* The puts that have been called: <<key, value>>.
Issued == {<<q[1], q[2]>> : q \in inflight \cup completed}

\* put(key, value) is called: the future is in flight, nothing is written yet.
PutCall(k, v) ==
    /\ Cardinality(Issued) < MaxPuts
    /\ <<k, v>> \notin Issued
    /\ inflight' = inflight \cup {<<k, v, FALSE>>}
    /\ UNCHANGED <<store, completed, resp>>
    /\ UNCHANGED <<streamVars, pipeVars>>

\* The put takes effect, whole (guarantee 1).  When the key holds another value
\* the implementation may overwrite it or leave it.
PutApply(k, v, overwrite) ==
    /\ <<k, v, FALSE>> \in inflight
    /\ inflight' = (inflight \ {<<k, v, FALSE>>}) \cup {<<k, v, TRUE>>}
    /\ store' = IF store[k] = None \/ overwrite THEN [store EXCEPT ![k] = Some(v)]
                                                ELSE store
    /\ UNCHANGED <<completed, resp>>
    /\ UNCHANGED <<streamVars, pipeVars>>

\* Faulty variant of PutDone: the future completes before the write has taken
\* effect.
PutDone_Early(k, v) ==
    /\ \E a \in BOOLEAN :
          /\ <<k, v, a>> \in inflight
          /\ inflight' = inflight \ {<<k, v, a>>}
    /\ completed' = completed \cup {<<k, v, "ok">>}
    /\ UNCHANGED <<store, resp>>
    /\ UNCHANGED <<streamVars, pipeVars>>

\* The future returned by put completes: the data is stored (guarantees 2 and 3).
PutDone(k, v) ==
    /\ <<k, v, TRUE>> \in inflight
    /\ inflight' = inflight \ {<<k, v, TRUE>>}
    /\ completed' = completed \cup {<<k, v, "ok">>}
    /\ UNCHANGED <<store, resp>>
    /\ UNCHANGED <<streamVars, pipeVars>>

\* The future returned by put fails, the write having taken effect or not.
PutFail(k, v) ==
    /\ \E a \in BOOLEAN :
          /\ <<k, v, a>> \in inflight
          /\ inflight' = inflight \ {<<k, v, a>>}
    /\ completed' = completed \cup {<<k, v, "err">>}
    /\ UNCHANGED <<store, resp>>
    /\ UNCHANGED <<streamVars, pipeVars>>

\* get(key): <<tag, value>>, the value of the key or None; with fault, the error of
\* the backend.
Get(k, fault) ==
    IF fault THEN <<"BackendError", <<>>>>
    ELSE IF store[k] = None THEN <<"None", <<>>>>
    ELSE <<"Some", store[k]>>

\* Faulty variant of IsPresent: opt.is_none() for opt.is_some().
IsPresent_Negated(k, fault) ==
    LET g == Get(k, fault)
    IN  IF g[1] = "Some" THEN <<"false", <<>>>>
        ELSE IF g[1] = "None" THEN <<"true", <<>>>>
        ELSE g

\* Faulty variant of IsPresent: an error of get counts as absent.
IsPresent_ErrAsFalse(k, fault) ==
    LET g == Get(k, fault)
    IN  IF g[1] = "Some" THEN <<"true", <<>>>> ELSE <<"false", <<>>>>

\* is_present: self.get(ctx, key).map(|opt| opt.is_some())
IsPresent(k, fault) ==
    LET g == Get(k, fault)
    IN  IF g[1] = "Some" THEN <<"true", <<>>>>
        ELSE IF g[1] = "None" THEN <<"false", <<>>>>
        ELSE g

\* Faulty variant of AssertPresent: the test on `present` is inverted.
AssertPresent_Inverted(k, fault) ==
    LET present == IsPresent(k, fault)
    IN  IF present[1] = "false" THEN <<"ok", <<>>>>
        ELSE IF present[1] = "true" THEN <<"NotFound", <<k>>>>
        ELSE present

\* assert_present: self.is_present(ctx, key.clone()).and_then(|present|
\*   if present { ok(()) } else { err(ErrorKind::NotFound(key)) })
AssertPresent(k, fault) ==
    LET present == IsPresent(k, fault)
    IN  IF present[1] = "true" THEN <<"ok", <<>>>>
        ELSE IF present[1] = "false" THEN <<"NotFound", <<k>>>>
        ELSE present

\* A caller has the result of get, is_present or assert_present.
GetOp(k, fault) ==
    /\ resp' = <<"get", <<k>>>> \o Get(k, fault)
    /\ UNCHANGED <<store, inflight, completed>>
    /\ UNCHANGED <<streamVars, pipeVars>>

IsPresentOp(k, fault) ==
    /\ resp' = <<"is_present", <<k>>>> \o IsPresent(k, fault)
    /\ UNCHANGED <<store, inflight, completed>>
    /\ UNCHANGED <<streamVars, pipeVars>>

AssertPresentOp(k, fault) ==
    /\ resp' = <<"assert_present", <<k>>>> \o AssertPresent(k, fault)
    /\ UNCHANGED <<store, inflight, completed>>
    /\ UNCHANGED <<streamVars, pipeVars>>

NextStore ==
    \/ \E k \in Keys, v \in Values : PutCall(k, v)
    \/ \E k \in Keys, v \in Values, overwrite \in BOOLEAN : PutApply(k, v, overwrite)
    \/ \E k \in Keys, v \in Values : PutDone(k, v)
    \/ \E k \in Keys, v \in Values : PutFail(k, v)
    \/ \E k \in Keys, fault \in BOOLEAN : GetOp(k, fault)
    \/ \E k \in Keys, fault \in BOOLEAN : IsPresentOp(k, fault)
    \/ \E k \in Keys, fault \in BOOLEAN : AssertPresentOp(k, fault)

SpecStore == InitStore /\ [][NextStore]_vars

(***************************************************************************)
(* The read operations of BlobRepo over what create_changeset calls have   *)
(* left in the stores.  Every commit of the repository is without parents  *)
(* and its builder got to some point of the pipeline: nothing written, its *)
(* entries uploaded, then its changeset blob and its filenodes in either   *)
(* order, then its record.  A lookup may fail with the backend's error.    *)
(***************************************************************************)
Stages ==
    {S \in SUBSET {"entries", "changeset", "filenodes", "record"} :
       /\ "record" \in S => {"changeset", "filenodes"} \subseteq S
       /\ S \cap {"changeset", "filenodes"} # {} => "entries" \in S}

InitRead ==
    /\ AuxIdle
    /\ \E st \in [Commits -> Stages] :
          /\ blobstore =
               UNION {EntryKeys(c, e) :
                        c \in {d \in Commits : "entries" \in st[d]}, e \in Entries}
                 \cup {ChangesetKey(CsId(c)) :
                         c \in {d \in Commits : "changeset" \in st[d]}}
          /\ filenodes =
               UNION {FilenodesOf(c) : c \in {d \in Commits : "filenodes" \in st[d]}}
          /\ changesets =
               {[cs_id |-> CsId(c), parents |-> <<>>, gen |-> 1] :
                  c \in {d \in Commits : "record" \in st[d]}}
    /\ heads = {}
    /\ par = <<>>
    /\ uploaded = <<>>
    /\ pdata = <<>>
    /\ fence = <<>>
    /\ canBeParent = <<>>
    /\ completion = <<>>

\* filenodes.get_filenode(&path, &node, &repoid): the filenodes of entry e of
\* commit c.
GetFilenode(c, e) == {f \in filenodes : f[1] = c /\ f[2] = e}

\* get_changeset_by_changesetid:
\* BlobChangeset::load(..).and_then(|cs| cs.ok_or(ChangesetMissing(chid)))
GetChangesetByChangesetid(id, fault) ==
    IF fault THEN <<"BackendError", <<>>>>
    ELSE IF ChangesetLoadable(id) THEN <<"ok", <<id>>>>
    ELSE <<"ChangesetMissing", <<id>>>>

\* get_manifest_by_nodeid, for the root manifest of commit c:
\* BlobManifest::load(..).and_then(|mf| mf.ok_or(ManifestMissing(nodeid)))
GetManifestByNodeid(c, fault) ==
    IF fault THEN <<"BackendError", <<>>>>
    ELSE IF ManifestPresent(c) THEN <<"ok", <<c>>>>
    ELSE <<"ManifestMissing", <<c>>>>

\* get_parents: filenode.ok_or(MissingFilenode(path, node)).map(|f| Parents(p1, p2));
\* the filenodes of the model carry no p1 and p2.
GetParents(c, e, fault) ==
    IF fault THEN <<"BackendError", <<>>>>
    ELSE IF GetFilenode(c, e) # {} THEN <<"ok", <<>>>>
    ELSE <<"MissingFilenode", <<c, e>>>>

\* get_file_copy: filenode.ok_or(MissingFilenode(path, node)).map(|f| f.copyfrom);
\* the filenodes of the model are no copies.
GetFileCopy(c, e, fault) ==
    IF fault THEN <<"BackendError", <<>>>>
    ELSE IF GetFilenode(c, e) # {} THEN <<"ok", <<>>>>
    ELSE <<"MissingFilenode", <<c, e>>>>

\* Faulty variant of GetLinknode: a missing filenode gives the null linknode.
GetLinknode_Default(c, e, fault) ==
    IF fault THEN <<"BackendError", <<>>>>
    ELSE IF GetFilenode(c, e) # {}
           THEN <<"ok", <<(CHOOSE f \in GetFilenode(c, e) : TRUE)[3]>>>>
    ELSE <<"ok", <<NoParent>>>>

\* get_linknode: filenode.ok_or(MissingFilenode(path, node)).map(|f| f.linknode)
GetLinknode(c, e, fault) ==
    IF fault THEN <<"BackendError", <<>>>>
    ELSE IF GetFilenode(c, e) # {}
           THEN <<"ok", <<(CHOOSE f \in GetFilenode(c, e) : TRUE)[3]>>>>
    ELSE <<"MissingFilenode", <<c, e>>>>

\* A caller has the result of one read operation.  The lookups changeset_exists and
\* get_generation_number map the Option they get and raise no error of their own.
ReadChangeset(id, fault) ==
    /\ resp' = <<"get_changeset_by_changesetid", <<id>>>>
                 \o GetChangesetByChangesetid(id, fault)
    /\ UNCHANGED <<pipeVars, streamVars, inflight, store, completed>>

ReadManifest(c, fault) ==
    /\ resp' = <<"get_manifest_by_nodeid", <<c>>>> \o GetManifestByNodeid(c, fault)
    /\ UNCHANGED <<pipeVars, streamVars, inflight, store, completed>>

ReadParents(c, e, fault) ==
    /\ resp' = <<"get_parents", <<c, e>>>> \o GetParents(c, e, fault)
    /\ UNCHANGED <<pipeVars, streamVars, inflight, store, completed>>

ReadFileCopy(c, e, fault) ==
    /\ resp' = <<"get_file_copy", <<c, e>>>> \o GetFileCopy(c, e, fault)
    /\ UNCHANGED <<pipeVars, streamVars, inflight, store, completed>>

ReadLinknode(c, e, fault) ==
    /\ resp' = <<"get_linknode", <<c, e>>>> \o GetLinknode(c, e, fault)
    /\ UNCHANGED <<pipeVars, streamVars, inflight, store, completed>>

ReadChangesetExists(id, fault) ==
    /\ resp' = <<"changeset_exists", <<id>>>>
                 \o (IF fault THEN <<"BackendError", <<>>>>
                     ELSE IF ChangesetExists(id) THEN <<"true", <<>>>>
                     ELSE <<"false", <<>>>>)
    /\ UNCHANGED <<pipeVars, streamVars, inflight, store, completed>>

ReadGenerationNumber(id, fault) ==
    /\ resp' = <<"get_generation_number", <<id>>>>
                 \o (IF fault THEN <<"BackendError", <<>>>>
                     ELSE IF GetGenerationNumber(id)[1] = "Some"
                            THEN <<"Some", <<GetGenerationNumber(id)[2]>>>>
                     ELSE <<"None", <<>>>>)
    /\ UNCHANGED <<pipeVars, streamVars, inflight, store, completed>>

NextRead ==
    \/ \E id \in Commits, fault \in BOOLEAN : ReadChangeset(CsId(id), fault)
    \/ \E c \in Commits, fault \in BOOLEAN : ReadManifest(c, fault)
    \/ \E c \in Commits, e \in Entries, fault \in BOOLEAN : ReadParents(c, e, fault)
    \/ \E c \in Commits, e \in Entries, fault \in BOOLEAN : ReadFileCopy(c, e, fault)
    \/ \E c \in Commits, e \in Entries, fault \in BOOLEAN : ReadLinknode(c, e, fault)
    \/ \E id \in Commits, fault \in BOOLEAN : ReadChangesetExists(CsId(id), fault)
    \/ \E id \in Commits, fault \in BOOLEAN : ReadGenerationNumber(CsId(id), fault)

SpecRead == InitRead /\ [][NextRead]_vars

(***************************************************************************)
(* upload_entry at the level of its two puts.  The builders of Commits are *)
(* started, without parents; each entry is handed to upload_entry, which   *)
(* issues content_upload and node_upload and joins them: the two puts are  *)
(* in flight together and complete in either order.                        *)
(***************************************************************************)
\* Two builders: one whose uploads go through next to one whose put fails.
Uploaders == {1, 2}

InitUpload ==
    /\ par = [c \in Uploaders |-> <<NoParent, NoParent>>]
    /\ uploaded = [c \in Uploaders |-> {}]
    /\ pdata = [c \in Uploaders |-> FALSE]
    /\ fence = [c \in Uploaders |-> {}]
    /\ canBeParent = [c \in Uploaders |-> Pending]
    /\ completion = [c \in Uploaders |-> Pending]
    /\ blobstore = {}
    /\ heads = {}
    /\ filenodes = {}
    /\ changesets = {}
    /\ AuxIdle

\* upload_entry is called for entry e: blobstore.put(sha1-.., content) and
\* blobstore.put(get_node_key(nodeid), raw_node) are issued.
UploadEntryCall(c, e) ==
    /\ Running(c)
    /\ e \notin uploaded[c]
    /\ EntryKeys(c, e) \cap (inflight \cup blobstore) = {}
    /\ inflight' = inflight \cup EntryKeys(c, e)
    /\ UNCHANGED <<pipeVars, streamVars, store, completed, resp>>

\* Faulty variant of UploadPutOk: the entry is handed over when the first of its
\* two puts has completed.
UploadPutOk_FirstPut(c, e, k) ==
    /\ Running(c)
    /\ k \in EntryKeys(c, e) \cap inflight
    /\ inflight' = inflight \ {k}
    /\ blobstore' = blobstore \cup {k}
    /\ uploaded' = [uploaded EXCEPT ![c] = @ \cup {e}]
    /\ UNCHANGED <<par, pdata, fence, canBeParent, completion,
                   heads, filenodes, changesets>>
    /\ UNCHANGED <<streamVars, store, completed, resp, sameAs, supplied>>

\* One of the two puts of entry e completes; when the other has completed too,
\* content_upload.join(node_upload) resolves and the entry is uploaded.
UploadPutOk(c, e, k) ==
    /\ Running(c)
    /\ k \in EntryKeys(c, e) \cap inflight
    /\ inflight' = inflight \ {k}
    /\ blobstore' = blobstore \cup {k}
    /\ uploaded' = IF EntryKeys(c, e) \subseteq blobstore \cup {k}
                     THEN [uploaded EXCEPT ![c] = @ \cup {e}]
                     ELSE uploaded
    /\ UNCHANGED <<par, pdata, fence, canBeParent, completion,
                   heads, filenodes, changesets>>
    /\ UNCHANGED <<streamVars, store, completed, resp, sameAs, supplied>>

\* One of the two puts of entry e fails: the join fails, and with it the builder,
\* which drops every put it still has in flight.  What was written stays.
UploadPutFail(c, e, k) ==
    /\ Running(c)
    /\ k \in EntryKeys(c, e) \cap inflight
    /\ inflight' = inflight \ UNION {EntryKeys(c, f) : f \in Entries}
    /\ Fail(c, "BackendError")
    /\ UNCHANGED <<par, blobstore, heads, filenodes, changesets>>
    /\ UNCHANGED <<streamVars, store, completed, resp, sameAs, supplied>>

NextUpload ==
    \/ \E c \in Handles, e \in Entries : UploadEntryCall(c, e)
    \/ \E c \in Handles, e \in Entries :
          \E k \in EntryKeys(c, e) : UploadPutOk(c, e, k)
    \/ \E c \in Handles, e \in Entries :
          \E k \in EntryKeys(c, e) : UploadPutFail(c, e, k)

SpecUpload == InitUpload /\ [][NextUpload]_vars

(***************************************************************************)
(* The same commit imported more than once.  Every builder is given the    *)
(* entries and the metadata of the first one and no parents, so that every *)
(* builder computes the same keys and the same changeset id.  The builders *)
(* are started together and their steps interleave freely, one import      *)
(* after the other included.  Every blobstore and index operation          *)
(* succeeds.                                                               *)
(***************************************************************************)
InitTwice ==
    /\ sameAs = [c \in Commits \ {RootEntry} |-> RootEntry]
    /\ supplied = <<>>
    /\ inflight = {}
    /\ frontier = <<>>
    /\ seen = {}
    /\ bcstate = <<"Idle">>
    /\ yielded = <<>>
    /\ store = <<>>
    /\ completed = {}
    /\ resp = NoResp
    /\ par = [c \in Commits |-> <<NoParent, NoParent>>]
    /\ uploaded = [c \in Commits |-> {}]
    /\ pdata = [c \in Commits |-> FALSE]
    /\ fence = [c \in Commits |-> {}]
    /\ canBeParent = [c \in Commits |-> Pending]
    /\ completion = [c \in Commits |-> Pending]
    /\ blobstore = {}
    /\ heads = {}
    /\ filenodes = {}
    /\ changesets = {}

NextTwice ==
    \/ \E c \in Handles, e \in Entries : UploadEntryOk(c, e)
    \/ \E c \in Handles : HandleParents(c)
    \/ \E c \in Handles, op \in FenceOps : FenceOk(c, op)
    \/ \E c \in Handles : SignalParentReady(c)
    \/ \E c \in Handles : ChangesetsAdd(c)

SpecTwice == InitTwice /\ [][NextTwice]_vars /\ WF_vars(NextTwice)

(***************************************************************************)
(* A commit whose parent handle delivers the commit's own changeset id.    *)
(* The first builder builds a commit without parents; every other builder  *)
(* has the first one as its only parent and computes either an id of its   *)
(* own or the id of its parent.  Every blobstore and index operation       *)
(* succeeds.                                                               *)
(***************************************************************************)
InitCycle ==
    /\ \E S \in SUBSET (Commits \ {RootEntry}) : sameAs = [c \in S |-> RootEntry]
    /\ supplied = <<>>
    /\ par = [c \in Commits |-> IF c = RootEntry THEN <<NoParent, NoParent>>
                                                 ELSE <<RootEntry, NoParent>>]
    /\ uploaded = [c \in Commits |-> {}]
    /\ pdata = [c \in Commits |-> FALSE]
    /\ fence = [c \in Commits |-> {}]
    /\ canBeParent = [c \in Commits |-> Pending]
    /\ completion = [c \in Commits |-> Pending]
    /\ blobstore = {}
    /\ heads = {}
    /\ filenodes = {}
    /\ changesets = {}
    /\ inflight = {}
    /\ frontier = <<>>
    /\ seen = {}
    /\ bcstate = <<"Idle">>
    /\ yielded = <<>>
    /\ store = <<>>
    /\ completed = {}
    /\ resp = NoResp

NextCycle ==
    \/ \E c \in Handles, e \in Entries : UploadEntryOk(c, e)
    \/ \E c \in Handles : HandleParents(c)
    \/ \E c \in Handles : MakeNewChangesetFail(c)
    \/ \E c \in Handles, op \in FenceOps : FenceOk(c, op)
    \/ \E c \in Handles : SignalParentReady(c)
    \/ \E c \in Handles : ChangesetsAdd(c)

SpecCycle == InitCycle /\ [][NextCycle]_vars /\ WF_vars(NextCycle)

(***************************************************************************)
(* Builders without parents whose callers deliver any set of entries: the  *)
(* root manifest may be missing from it, and so may a child that a         *)
(* delivered tree refers to.  The first builder is given one set, the      *)
(* other builders another one.  Every blobstore and index operation        *)
(* succeeds; finalize fails only by rejecting what was added.              *)
(***************************************************************************)
InitFinalize ==
    /\ \E S, T \in SUBSET Entries :
          supplied = [c \in Commits |-> IF c = RootEntry THEN S ELSE T]
    /\ sameAs = <<>>
    /\ par = [c \in Commits |-> <<NoParent, NoParent>>]
    /\ uploaded = [c \in Commits |-> {}]
    /\ pdata = [c \in Commits |-> FALSE]
    /\ fence = [c \in Commits |-> {}]
    /\ canBeParent = [c \in Commits |-> Pending]
    /\ completion = [c \in Commits |-> Pending]
    /\ blobstore = {}
    /\ heads = {}
    /\ filenodes = {}
    /\ changesets = {}
    /\ inflight = {}
    /\ frontier = <<>>
    /\ seen = {}
    /\ bcstate = <<"Idle">>
    /\ yielded = <<>>
    /\ store = <<>>
    /\ completed = {}
    /\ resp = NoResp

NextFinalize ==
    \/ \E c \in Handles, e \in Entries : UploadEntryOk(c, e)
    \/ \E c \in Handles : HandleParents(c)
    \/ \E c \in Handles, op \in FenceOps : FenceOk(c, op)
    \/ \E c \in Handles : FinalizeFail(c)
    \/ \E c \in Handles : SignalParentReady(c)
    \/ \E c \in Handles : ChangesetsAdd(c)

SpecFinalize == InitFinalize /\ [][NextFinalize]_vars /\ WF_vars(NextFinalize)

(***************************************************************************)
(* compute_changed_files(root, p1, p2) as a function of the manifests.  A  *)
(* manifest gives every path the filenode it holds for it, or NoFile.      *)
(* Paths are byte strings; the longer paths of the model come first in     *)
(* byte order.                                                             *)
(***************************************************************************)
PathOf(i) == Append([j \in 1..(i - 1) |-> 1], NumPaths + 1 - i)
Paths == {PathOf(i) : i \in 1..NumPaths}

\* Two filenodes per path: enough for a path to be the same as or to differ from
\* what a parent holds.
NoFile == "absent"
FileNodes == {"f1", "f2"}
Manifests == [Paths -> {NoFile} \cup FileNodes]
EmptyManifest == [f \in Paths |-> NoFile]

\* The order of paths: byte by byte, a proper prefix first.
PathLess(a, b) ==
    \/ \E i \in 1..Len(a) :
          /\ i <= Len(b)
          /\ a[i] < b[i]
          /\ \A j \in 1..(i - 1) : a[j] = b[j]
    \/ /\ Len(a) < Len(b)
       /\ \A j \in 1..Len(a) : a[j] = b[j]

RECURSIVE SortPaths(_)
SortPaths(S) ==
    IF S = {} THEN <<>>
    ELSE LET least == CHOOSE f \in S : \A g \in S \ {f} : PathLess(f, g)
         IN  <<least>> \o SortPaths(S \ {least})

\* The paths that differ between two manifests: added, removed or of another
\* filenode.
ChangedPair(to, from) == {f \in Paths : to[f] # from[f]}

\* compute_changed_files: against the empty manifest without parents, against the
\* parent's manifest with one parent, against both and joined with two; sorted.
ComputeChangedFiles(root, p1, p2) ==
    SortPaths(
      IF p1 = None /\ p2 = None THEN ChangedPair(root, EmptyManifest)
      ELSE IF p2 = None THEN ChangedPair(root, p1[1])
      ELSE IF p1 = None THEN ChangedPair(root, p2[1])
      ELSE ChangedPair(root, p1[1]) \cup ChangedPair(root, p2[1]))

InitChanged == AuxIdle /\ PipeIdle

\* Faulty variant of ComputeChangedFilesOp: p1's manifest is passed for p2 as well.
ComputeChangedFilesOp_FirstParentOnly(root, p1, p2) ==
    /\ resp = NoResp
    /\ resp' = <<"compute_changed_files", <<root, p1, p2>>, "ok",
                 <<ComputeChangedFiles(root, p1, p1)>>>>
    /\ UNCHANGED <<pipeVars, streamVars, inflight, store, completed>>

\* compute_changed_files(&root_manifest, p1_manifest.as_ref(), p2_manifest.as_ref())
ComputeChangedFilesOp(root, p1, p2) ==
    /\ resp = NoResp
    /\ resp' = <<"compute_changed_files", <<root, p1, p2>>, "ok",
                 <<ComputeChangedFiles(root, p1, p2)>>>>
    /\ UNCHANGED <<pipeVars, streamVars, inflight, store, completed>>

NextChanged ==
    \E root \in Manifests, p1, p2 \in {None} \cup {Some(m) : m \in Manifests} :
       ComputeChangedFilesOp(root, p1, p2)

SpecChanged == InitChanged /\ [][NextChanged]_vars

(***************************************************************************)
(* blobimport's convert: the entries of the changesets, flattened into one *)
(* stream, are copied by futures spawned on the cpu pool and gathered by   *)
(* buffer_unordered.  The buffer pulls the next entry from the stream --   *)
(* which spawns its copy -- only while it holds fewer futures than its     *)
(* amount; a future stays in the buffer until it has completed and the     *)
(* buffer has been polled for it.  The amount is scaled down to MaxFanOut. *)
(***************************************************************************)
FanOut == IF BufferAmount < MaxFanOut THEN BufferAmount ELSE MaxFanOut
Uploads == 1..NumUploads

InitConvert == AuxIdle /\ PipeIdle

\* The entries whose copy has been yielded by the buffer.
Gathered == {yielded[i] : i \in 1..Len(yielded)}

\* The entries pulled from the stream so far; the stream delivers them in order.
Pulled == inflight \cup completed \cup Gathered

ConvertRunning == resp = NoResp

\* Faulty variant of BufferPull: every entry of the stream is spawned as it comes.
BufferPull_Unbounded(e) ==
    /\ ConvertRunning
    /\ e \in Uploads
    /\ e = Cardinality(Pulled) + 1
    /\ inflight' = inflight \cup {e}
    /\ UNCHANGED <<pipeVars, streamVars, store, completed, resp>>

\* buffer_unordered(100) polls the stream: .map(|copy| cpupool.spawn(copy)) starts
\* the copy of the next entry.
BufferPull(e) ==
    /\ ConvertRunning
    /\ e \in Uploads
    /\ e = Cardinality(Pulled) + 1
    /\ Cardinality(inflight \cup completed) < FanOut
    /\ inflight' = inflight \cup {e}
    /\ UNCHANGED <<pipeVars, streamVars, store, completed, resp>>

\* copy_manifest_entry: node.join(blob) has resolved on the pool.
CopyDone(e) ==
    /\ ConvertRunning
    /\ e \in inflight
    /\ inflight' = inflight \ {e}
    /\ completed' = completed \cup {e}
    /\ blobstore' = blobstore \cup {<<"node", 0, e>>, <<"sha1", 0, e>>}
    /\ UNCHANGED <<par, uploaded, pdata, fence, canBeParent, completion,
                   heads, filenodes, changesets, sameAs, supplied>>
    /\ UNCHANGED <<streamVars, store, resp>>

\* A put of the copy fails: the buffer returns the error, for_each ends and
\* core.run(convert)? returns it.
CopyFail(e) ==
    /\ ConvertRunning
    /\ e \in inflight
    /\ resp' = <<"convert", <<e>>, "BackendError", <<>>>>
    /\ UNCHANGED <<pipeVars, streamVars, inflight, store, completed>>

\* The buffer is polled and yields a completed copy, which leaves the buffer.
BufferYield(e) ==
    /\ ConvertRunning
    /\ e \in completed
    /\ completed' = completed \ {e}
    /\ yielded' = Append(yielded, e)
    /\ UNCHANGED <<pipeVars, frontier, seen, bcstate, inflight, store, resp>>

NextConvert ==
    \/ \E e \in Uploads : BufferPull(e)
    \/ \E e \in Uploads : CopyDone(e)
    \/ \E e \in Uploads : CopyFail(e)
    \/ \E e \in Uploads : BufferYield(e)

SpecConvert == InitConvert /\ [][NextConvert]_vars

(***************************************************************************)
(* get_changesets next to create_changeset.  Two builders, the second with *)
(* the first as its parent, whose entry uploads have resolved, and a       *)
(* reader that opens a BlobChangesetStream at any moment and polls it      *)
(* while the builders go on.  The parts of a fence may fail; every read of *)
(* the blobstore returns what the blobstore holds.                         *)
(***************************************************************************)
\* get_changesets has not been called: there is no stream.
Closed == <<"Closed">>

InitRace ==
    /\ sameAs = <<>>
    /\ supplied = <<>>
    /\ par = [c \in Uploaders |-> IF c = 1 THEN <<NoParent, NoParent>>
                                            ELSE <<1, NoParent>>]
    /\ uploaded = [c \in Uploaders |-> Entries]
    /\ pdata = [c \in Uploaders |-> FALSE]
    /\ fence = [c \in Uploaders |-> {}]
    /\ canBeParent = [c \in Uploaders |-> Pending]
    /\ completion = [c \in Uploaders |-> Pending]
    /\ blobstore = UNION {EntryKeys(c, e) : c \in Uploaders, e \in Entries}
    /\ heads = {}
    /\ filenodes = {}
    /\ changesets = {}
    /\ frontier = <<>>
    /\ seen = {}
    /\ bcstate = Closed
    /\ yielded = <<>>
    /\ inflight = {}
    /\ store = <<>>
    /\ completed = {}
    /\ resp = NoResp

\* get_changesets: BlobChangesetStream { heads: self.heads.heads(), state: Idle,
\* seen: HashSet::new() }.  The heads stream gives the ids that the index holds,
\* in any order.
GetChangesets ==
    /\ bcstate = Closed
    /\ frontier' \in {o \in Orderings(heads) : Len(o) = Cardinality(heads)}
    /\ seen' = {}
    /\ bcstate' = <<"Idle">>
    /\ yielded' = <<>>
    /\ UNCHANGED <<resp, inflight, store, completed>>
    /\ UNCHANGED pipeVars

\* WaitCS(next, csfut), and BlobChangeset::load gives None:
\* get_changeset_by_changesetid turns it into ChangesetMissing, which try_ready!
\* returns from poll.
PollLoadMissing ==
    /\ ~StreamFailed
    /\ bcstate[1] = "WaitCS"
    /\ ~ChangesetLoadable(bcstate[2])
    /\ resp' = <<"get_changesets", <<bcstate[2]>>, "ChangesetMissing", <<>>>>
    /\ UNCHANGED <<frontier, seen, bcstate, yielded, inflight, store, completed>>
    /\ UNCHANGED pipeVars

NextRace ==
    \/ \E c \in Handles : HandleParents(c)
    \/ \E c \in Handles : HandleParentsFail(c)
    \/ \E c \in Handles, op \in FenceOps : FenceOk(c, op)
    \/ \E c \in Handles, op \in FenceOps : FenceFail(c, op)
    \/ \E c \in Handles : SignalParentReady(c)
    \/ \E c \in Handles : ParentsFailed(c)
    \/ \E c \in Handles : ChangesetsAdd(c)
    \/ GetChangesets
    \/ PollIdle
    \/ PollEnd
    \/ PollLoaded
    \/ PollLoadMissing

SpecRace == InitRace /\ [][NextRace]_vars

(***************************************************************************)
(* Every graph of create_changeset calls over GraphSize builders: a parent *)
(* handle is the handle of an earlier call, the same handle may be given   *)
(* to several later calls and as both p1 and p2 of one call.  The calls    *)
(* have returned; the entry uploads of every builder, which await nothing, *)
(* have resolved, and each builder is at the point where it awaits the     *)
(* handles of its parents.  Every blobstore and index operation succeeds;  *)
(* the completion futures are spawned on the executor, which polls every   *)
(* future that can make progress.                                          *)
(***************************************************************************)
InitDag ==
    /\ AuxIdle
    /\ par \in [Nodes -> ({NoParent} \cup Nodes) \X ({NoParent} \cup Nodes)]
    /\ \A c \in Nodes : par[c][1] < c /\ par[c][2] < c
    /\ uploaded = [c \in Nodes |-> Entries]
    /\ pdata = [c \in Nodes |-> FALSE]
    /\ fence = [c \in Nodes |-> {}]
    /\ canBeParent = [c \in Nodes |-> Pending]
    /\ completion = [c \in Nodes |-> Pending]
    /\ blobstore = UNION {EntryKeys(c, e) : c \in Nodes, e \in Entries}
    /\ heads = {}
    /\ filenodes = {}
    /\ changesets = {}

NextDag ==
    \/ \E c \in Handles : HandleParents(c)
    \/ \E c \in Handles, op \in FenceOps : FenceOk(c, op)
    \/ \E c \in Handles : SignalParentReady(c)
    \/ \E c \in Handles : ChangesetsAdd(c)

SpecDag == InitDag /\ [][NextDag]_vars /\ WF_vars(NextDag)

(***************************************************************************)
(* BlobChangesetStream over any blobstore content.  The stream reads the   *)
(* heads and the changeset blobs and nothing else, and a repository opened *)
(* from storage holds whatever was stored: here every graph of RingSize    *)
(* changeset blobs, the parents of a blob being any ids of the graph, its  *)
(* own included, so that parent edges may form cycles; the heads stream    *)
(* gives any sequence of at most MaxHeads ids, repetitions included.       *)
(* Every load completes with the changeset; the consumer polls the stream  *)
(* until it ends.                                                          *)
(***************************************************************************)
Ring == 1..RingSize

\* The sequences of at most MaxHeads ids.
HeadLists == UNION {[1..n -> Ring] : n \in 0..MaxHeads}

InitCyclic ==
    /\ sameAs = <<>>
    /\ supplied = <<>>
    /\ par \in [Ring -> ({NoParent} \cup Ring) \X ({NoParent} \cup Ring)]
    \* a changeset blob has a second parent only after a first one
    /\ \A c \in Ring : par[c][1] = NoParent => par[c][2] = NoParent
    /\ uploaded = [c \in Ring |-> Entries]
    /\ pdata = [c \in Ring |-> TRUE]
    /\ fence = [c \in Ring |-> FenceOps]
    /\ canBeParent = [c \in Ring |-> "ok"]
    /\ completion = [c \in Ring |-> "ok"]
    /\ blobstore = UNION {EntryKeys(c, e) : c \in Ring, e \in Entries}
                     \cup {ChangesetKey(CsId(c)) : c \in Ring}
    /\ filenodes = UNION {FilenodesOf(c) : c \in Ring}
    /\ changesets = {}
    /\ frontier \in HeadLists
    /\ heads = {frontier[i] : i \in 1..Len(frontier)}
    /\ seen = {}
    /\ bcstate = <<"Idle">>
    /\ yielded = <<>>
    /\ inflight = {}
    /\ store = <<>>
    /\ completed = {}
    /\ resp = NoResp

NextCyclic ==
    \/ PollIdle
    \/ PollEnd
    \/ PollLoaded

SpecCyclic == InitCyclic /\ [][NextCyclic]_vars /\ WF_vars(NextCyclic)

(***************************************************************************)
(* Properties of the commit pipeline.                                      *)
(***************************************************************************)

\* C1: a commit has a ChangesetRecord only when the completion signal of each of
\* its parent handles has resolved successfully; hence every commit with a record
\* has a record for each of its parents.
C1_ParentsRecordedFirst ==
    /\ \A c \in Handles :
          HasRecord(CsId(c)) =>
            \A p \in Parents(c) : completion[p] = "ok" /\ HasRecord(CsId(p))
    /\ \A r \in changesets :
          \A i \in 1..Len(r.parents) : HasRecord(r.parents[i])

\* A commit with a parent has its record.
C1_Witness ==
    \E c \in Handles : Parents(c) # {} /\ HasRecord(CsId(c))

\* C2: the filenodes of a commit, stamped with linknode = cs_id, are in the
\* filenodes index strictly before the commit's ChangesetRecord is inserted: they
\* are there in the state from which the insert is made, and in every state that
\* has the record.
C2_FinalizeBeforeRecord ==
    /\ [](\A c \in Handles : HasRecord(CsId(c)) => FilenodesOf(c) \subseteq filenodes)
    /\ [][\A c \in Handles :
            (~HasRecord(CsId(c)) /\ HasRecord(CsId(c))') =>
               FilenodesOf(c) \subseteq filenodes]_vars

\* A record has been inserted, with its filenodes in the index.
C2_Witness ==
    \E c \in Handles : HasRecord(CsId(c)) /\ FilenodesOf(c) \subseteq filenodes

\* C3: for every ChangesetRecord, the changeset blob is in the blobstore, and so are
\* the content blob and the node record of the root manifest and of every entry
\* supplied to create_changeset.
C3_RecordHasBlobs ==
    \A c \in Handles :
      HasRecord(CsId(c)) =>
        /\ ChangesetKey(CsId(c)) \in blobstore
        /\ \A e \in Entries : EntryKeys(c, e) \subseteq blobstore

\* Two commits have their records, each with a root manifest and a child entry.
C3_Witness ==
    /\ Cardinality(Entries) > 1
    /\ \E c, d \in Handles : c # d /\ HasRecord(CsId(c)) /\ HasRecord(CsId(d))

\* C4 as stated: until its ChangesetRecord is inserted, the id of a commit being
\* built is neither returned by get_heads nor yielded by get_changesets.
C4_HiddenUntilRecord ==
    \A c \in Handles :
      ~HasRecord(CsId(c)) => CsId(c) \notin GetHeads /\ CsId(c) \notin StreamIds

\* C4, amended: a commit is in the changesets index (changeset_exists,
\* get_generation_number) only once its record insert has succeeded; get_heads and
\* get_changesets can give its id before that, but only once heads.add of its
\* finalization fence is done, so after all its entries are uploaded and every
\* parent's can_be_parent has delivered.
C4_VisibleAfterFenceStart ==
    \A c \in Handles :
      /\ HasRecord(CsId(c)) => completion[c] = "ok"
      /\ (CsId(c) \in GetHeads \/ CsId(c) \in StreamIds) =>
            /\ \A e \in Entries : EntryKeys(c, e) \subseteq blobstore
            /\ \A p \in Parents(c) : canBeParent[p] = "ok"

\* A commit with a parent is returned by get_heads and yielded by get_changesets
\* while it has no record yet.
C4_Witness ==
    \E c \in Handles :
      /\ Parents(c) # {}
      /\ CsId(c) \in GetHeads
      /\ CsId(c) \in StreamIds
      /\ ~HasRecord(CsId(c))
      /\ Running(c)

\* A handle whose completion has resolved to an error.
Failed(c) == completion[c] \in ErrorKinds

\* C5: when a create_changeset call fails, whatever step failed, the heads index,
\* the filenodes index and the changesets index hold no entry for that commit.
C5_FailedLeavesNoIndexEntry ==
    \A c \in Handles :
      Failed(c) =>
        /\ CsId(c) \notin heads
        /\ FilenodesOf(c) \cap filenodes = {}
        /\ ~HasRecord(CsId(c))

\* C6 as stated: every error of the pipeline resolves both signals of the handle to
\* an error; no handle ends with can_be_parent ok and completion an error.
C6_BothSignalsFail ==
    \A c \in Handles : Failed(c) => canBeParent[c] = "err"

\* C6, amended: every error of the pipeline resolves completion to an error, and
\* can_be_parent resolves to an error exactly when the error came before
\* signal_parent_ready.send.  An error after the send (the parent durability fence
\* or the record insert) leaves can_be_parent resolved successfully; then the
\* finalization fence of that commit had completed, and the error is ParentsFailed
\* or the error of the record insert.
C6_SignalsOnError ==
    \A c \in Handles :
      /\ Failed(c) => canBeParent[c] \in {"err", "ok"}
      /\ canBeParent[c] = "err" => Failed(c)
      /\ (Failed(c) /\ canBeParent[c] = "ok") =>
            /\ completion[c] \in {"ParentsFailed", "BackendError"}
            /\ ChangesetKey(CsId(c)) \in blobstore
            /\ CsId(c) \in heads
            /\ FilenodesOf(c) \subseteq filenodes

\* A handle whose can_be_parent is ok while its completion is ParentsFailed: its
\* parent failed at the record insert, after both had passed their fences.
C6_Witness ==
    \E c \in Handles :
      /\ completion[c] = "ParentsFailed"
      /\ canBeParent[c] = "ok"
      /\ \E p \in Parents(c) : completion[p] = "BackendError" /\ canBeParent[p] = "ok"

\* A parent handle of c has resolved to an error.
ParentHandleFailed(c) == \E p \in Parents(c) : Failed(p)

RecordInserted(c) == ~HasRecord(CsId(c)) /\ HasRecord(CsId(c))'

\* C8: in a linear chain whose builders are all started before the first commit is
\* durable, with every operation succeeding, every ChangesetRecord is eventually
\* inserted, and in the order of the chain: a record is inserted only when the
\* records of all earlier commits of the chain are there.
C8_ChainDurableInOrder ==
    /\ <>(\A c \in Handles : HasRecord(CsId(c)))
    /\ [][\A c \in Handles :
            RecordInserted(c) => \A d \in Handles : d < c => HasRecord(CsId(d))]_vars

\* The chain of three commits is durable: every record is in the index, each with
\* its parent.
C8_Witness ==
    /\ Cardinality(Handles) >= 3
    /\ \A c \in Handles : HasRecord(CsId(c)) /\ completion[c] = "ok"
    /\ \A c \in Handles : c > 1 => Parents(c) = {c - 1}

\* A root commit: both parent handles absent.
Root(c) == Created(c) /\ Parents(c) = {}

\* C9: for a root commit the parents-complete fence is ok at once, so its record
\* insert is enabled as soon as its own changeset future has resolved, whatever the
\* other builders do; with every operation succeeding, can_be_parent and completion
\* both eventually resolve successfully.
C9_RootCommitCompletes ==
    /\ [](\A c \in Handles :
            Root(c) =>
              /\ ParentsComplete(c) = "ok"
              /\ ChangesetBuilt(c) => ENABLED ChangesetsAdd(c))
    /\ \A c \in Commits :
          Root(c) ~> (canBeParent[c] = "ok" /\ completion[c] = "ok")

\* A root commit has both signals ok while a builder started before it is still
\* running.
C9_Witness ==
    \E c, d \in Handles :
      /\ d < c
      /\ Root(c)
      /\ canBeParent[c] = "ok"
      /\ completion[c] = "ok"
      /\ Running(d)

DroppedNow(d) == completion[d] # Dropped /\ completion'[d] = Dropped

\* C11: dropping a dependent builder that awaits a parent handle changes neither
\* signal of any other handle and no index; the parent still completes, and every
\* dependent that is not dropped still resolves, having seen the parent's results.
C11_DropLeavesParent ==
    /\ [][\A d \in Handles :
            DroppedNow(d) =>
              /\ \A c \in Handles \ {d} :
                    /\ canBeParent'[c] = canBeParent[c]
                    /\ completion'[c] = completion[c]
              /\ blobstore' = blobstore /\ heads' = heads
              /\ filenodes' = filenodes /\ changesets' = changesets]_vars
    /\ \A c \in Fan :
          Root(c) ~> (canBeParent[c] = "ok" /\ completion[c] = "ok"
                        /\ HasRecord(CsId(c)))
    /\ \A d \in Fan : <>(completion[d] \in {"ok", Dropped})
    /\ [](\A d \in Handles :
            /\ pdata[d] => \A p \in Parents(d) : canBeParent[p] = "ok"
            /\ completion[d] = "ok" =>
                  \A p \in Parents(d) : completion[p] = "ok" /\ HasRecord(CsId(p)))

\* A dependent was dropped after its own can_be_parent had fired and before its
\* record was inserted (it awaited the parent's completion or the insert); the
\* parent and the other dependent have completed.
C11_Witness ==
    \E d, e \in Handles :
      /\ d # e
      /\ Parents(d) # {} /\ Parents(d) = Parents(e)
      /\ completion[d] = Dropped /\ canBeParent[d] = "ok" /\ ~HasRecord(CsId(d))
      /\ completion[e] = "ok" /\ HasRecord(CsId(e))
      /\ \A p \in Parents(d) : completion[p] = "ok" /\ canBeParent[p] = "ok"

YieldedIds == {yielded[i] : i \in 1..Len(yielded)}

\* C13: the stream yields no id twice and only ids reachable from the initial
\* heads through parent edges; when it ends, having loaded every changeset it
\* asked for, it has yielded every reachable id.
C13_StreamYieldsClosureOnce ==
    /\ \A i, j \in 1..Len(yielded) : i # j => yielded[i] # yielded[j]
    /\ YieldedIds \subseteq StreamIds
    /\ resp[3] = "end" => YieldedIds = StreamIds

\* The stream has ended over a merge reached from one head, one parent of the merge
\* being also a parent of the other: that id is pulled from the frontier twice and
\* yielded once.
C13_Witness ==
    /\ resp[3] = "end"
    /\ Cardinality(heads) = 1
    /\ \E c, d \in Handles :
          /\ CsId(c) \in heads
          /\ Cardinality(Parents(c)) = 2
          /\ d \in Parents(c)
          /\ Parents(d) # {} /\ Parents(d) \subseteq Parents(c)
    /\ Len(yielded) = 3

\* The ancestors of changeset id: its parents, their parents, and so on.
Ancestors(id) == StreamClosure(BlobParents(id), Cardinality(Handles))

\* No changeset is yielded before a changeset that has it as an ancestor.
Topological ==
    \A i, j \in 1..Len(yielded) : i < j => yielded[i] \notin Ancestors(yielded[j])

\* C14 as stated: for every commit graph and every initial heads the order of the
\* ids yielded is a topological order from tips toward roots.
C14_TopologicalOrder == Topological

\* The ids at distance k from the initial heads.
RECURSIVE Level(_)
Level(k) ==
    IF k = 0 THEN heads ELSE UNION {BlobParents(id) : id \in Level(k - 1)}

\* The length of the shortest parent path from an initial head to id.
Dist(id) ==
    CHOOSE k \in 0..Cardinality(Handles) :
      id \in Level(k) /\ \A m \in 0..(k - 1) : id \notin Level(m)

\* C14, amended: the order is breadth-first from the initial heads.  Every id
\* yielded is an initial head or a parent of an id yielded before it, and the ids
\* come in order of their distance from the heads: none is yielded before an id
\* nearer to the heads.  It is a topological order when the history is linear and
\* starts from one head.
C14_BreadthFirstOrder ==
    /\ \A j \in 1..Len(yielded) :
          \/ yielded[j] \in heads
          \/ \E i \in 1..(j - 1) : yielded[j] \in BlobParents(yielded[i])
    /\ \A i, j \in 1..Len(yielded) : i < j => Dist(yielded[i]) <= Dist(yielded[j])
    /\ (Cardinality(heads) = 1 /\ \A c \in Handles : Cardinality(Parents(c)) <= 1)
          => Topological

\* From one head, a merge: its first parent is yielded before its second parent,
\* which is a child of the first.
C14_Witness ==
    /\ resp[3] = "end"
    /\ Cardinality(heads) = 1
    /\ ~Topological
    /\ \E i, j \in 1..Len(yielded) :
          i < j /\ yielded[i] \in BlobParents(yielded[j])

\* put(k, v) has completed and no other value has been put under k.
PutCompleted(k, v) ==
    /\ <<k, v, "ok">> \in completed
    /\ \A q \in Issued : q[1] = k => q[2] = v

\* The read operation op returns in this step.
Returns(op) == resp' # resp /\ resp'[1] = op

C16_IsPresentIsGetSome ==
    /\ [](\A k \in Keys :
            /\ IsPresent(k, FALSE)[1] = "true" <=> Get(k, FALSE)[1] = "Some"
            /\ IsPresent(k, FALSE)[1] = "false" <=> Get(k, FALSE)[1] = "None")
    /\ [][Returns("is_present") =>
            /\ resp'[3] = "true" => Get(resp'[2][1], FALSE)[1] = "Some"
            /\ resp'[3] = "false" => Get(resp'[2][1], FALSE)[1] = "None"
            /\ store' = store /\ inflight' = inflight /\ completed' = completed]_vars

\* is_present has returned true for a key that holds a value, while another key
\* holds none.
C16_Witness ==
    /\ resp[1] = "is_present"
    /\ resp[3] = "true"
    /\ store[resp[2][1]] # None
    /\ \E k \in Keys : store[k] = None

\* C17: assert_present(k) succeeds exactly when is_present(k) gives true and fails
\* with NotFound(k), the key it was called with, when is_present(k) gives false;
\* the call leaves the store and its puts as they are.
C17_AssertPresent ==
    /\ [](\A k \in Keys, fault \in BOOLEAN :
            /\ AssertPresent(k, fault)[1] = "ok" <=> IsPresent(k, fault)[1] = "true"
            /\ IsPresent(k, fault)[1] = "false" =>
                  AssertPresent(k, fault) = <<"NotFound", <<k>>>>)
    /\ [][Returns("assert_present") =>
            /\ resp'[3] = "ok" => store[resp'[2][1]] # None
            /\ resp'[3] = "NotFound" =>
                  store[resp'[2][1]] = None /\ resp'[4] = resp'[2]
            /\ store' = store /\ inflight' = inflight /\ completed' = completed]_vars

\* assert_present has failed with NotFound(k) for a key k without a value while
\* another key holds one.
C17_Witness ==
    /\ resp[1] = "assert_present"
    /\ resp[3] = "NotFound"
    /\ resp[4] = resp[2]
    /\ store[resp[2][1]] = None
    /\ \E k \in Keys : store[k] # None

\* C18: get of a key without a value gives None and no error; an error of get
\* comes out of is_present and of assert_present as it is: never as false, true,
\* ok or NotFound.
C18_AbsenceAndErrors ==
    \A k \in Keys :
      /\ store[k] = None => Get(k, FALSE) = <<"None", <<>>>>
      /\ Get(k, TRUE)[1] = "BackendError"
      /\ IsPresent(k, TRUE) = Get(k, TRUE)
      /\ AssertPresent(k, TRUE) = Get(k, TRUE)
      /\ resp[1] \in {"is_present", "assert_present"} =>
            resp[3] \in {"true", "false", "ok", "NotFound", "BackendError"}

\* assert_present has returned the backend's error for a key that holds a value.
C18_Witness ==
    /\ resp[1] = "assert_present"
    /\ resp[3] = "BackendError"
    /\ store[resp[2][1]] # None

\* The object that the read operation op was asked for is there.
ReadTargetPresent ==
    CASE resp[1] = "get_changeset_by_changesetid" -> ChangesetLoadable(resp[2][1])
      [] resp[1] = "get_manifest_by_nodeid" -> ManifestPresent(resp[2][1])
      [] resp[1] \in {"get_parents", "get_file_copy", "get_linknode"} ->
            GetFilenode(resp[2][1], resp[2][2]) # {}
      [] resp[1] \in {"changeset_exists", "get_generation_number"} ->
            HasRecord(resp[2][1])
      [] OTHER -> FALSE

\* The Missing error of the read operation op.
MissingKind ==
    CASE resp[1] = "get_changeset_by_changesetid" -> "ChangesetMissing"
      [] resp[1] = "get_manifest_by_nodeid" -> "ManifestMissing"
      [] resp[1] \in {"get_parents", "get_file_copy", "get_linknode"} ->
            "MissingFilenode"
      [] OTHER -> "none"

\* C19: a read operation that expects an object succeeds only when the object is
\* there, and when it is not there fails with its Missing error carrying the id
\* (or path and node) it was asked for, unless the backend's error came first;
\* changeset_exists and get_generation_number answer false and None for an absent
\* record, true and Some for a present one, and raise no Missing error.
C19_AbsenceBecomesMissing ==
    /\ MissingKind # "none" =>
          /\ resp[3] \in {"ok", MissingKind, "BackendError"}
          /\ resp[3] = "ok" => ReadTargetPresent
          /\ resp[3] = MissingKind => ~ReadTargetPresent /\ resp[4] = resp[2]
          /\ (~ReadTargetPresent /\ resp[3] # "BackendError") => resp[3] = MissingKind
    /\ resp[1] = "changeset_exists" =>
          /\ resp[3] \in {"true", "false", "BackendError"}
          /\ resp[3] = "true" => ReadTargetPresent
          /\ resp[3] = "false" => ~ReadTargetPresent
    /\ resp[1] = "get_generation_number" =>
          /\ resp[3] \in {"Some", "None", "BackendError"}
          /\ resp[3] = "Some" => ReadTargetPresent
          /\ resp[3] = "None" => ~ReadTargetPresent

\* get_linknode has failed with MissingFilenode for an entry of a commit whose
\* blobs are uploaded and whose filenodes are not written, while another commit
\* has its record.
C19_Witness ==
    /\ resp[1] = "get_linknode"
    /\ resp[3] = "MissingFilenode"
    /\ resp[4] = resp[2]
    /\ EntryKeys(resp[2][1], resp[2][2]) \subseteq blobstore
    /\ changesets # {}

\* C20: in every state of the blobstore, those in the middle of an upload_entry and
\* those after one of its two puts has failed included, every node record that
\* exists references a content blob that exists.
C20_NodeHasContent ==
    \A c \in Handles, e \in Entries :
      NodeKey(c, e) \in blobstore => ContentKey(c, e) \in blobstore

\* Every builder that was started has completed successfully.
AllCompleted == \A c \in Handles : Created(c) => completion[c] = "ok"

\* What the builders started so far leave in the stores when each is run alone to
\* its end, one after the other in the order of their parents.
FinalBlobstore ==
    UNION {EntryKeys(c, e) : c \in {d \in Handles : Created(d)}, e \in Entries}
      \cup {ChangesetKey(CsId(c)) : c \in {d \in Handles : Created(d)}}
FinalHeads == {CsId(c) : c \in {d \in Handles : Created(d)}}
FinalFilenodes == UNION {FilenodesOf(c) : c \in {d \in Handles : Created(d)}}
FinalChangesets ==
    {[cs_id |-> CsId(c), parents |-> ParentIds(c), gen |-> Generation(c)] :
       c \in {d \in Handles : Created(d)}}

\* C21: with every operation succeeding, whatever the interleaving of the steps of
\* the builders, once the builders have completed the blobstore, the heads, the
\* filenodes and the changesets are those of running the builders one after the
\* other; and the builders do complete.
C21_SameFinalState ==
    /\ [](AllCompleted =>
            /\ blobstore = FinalBlobstore
            /\ heads = FinalHeads
            /\ filenodes = FinalFilenodes
            /\ changesets = FinalChangesets)
    /\ <>(\A c \in Commits : completion[c] = "ok")

\* Two builders without parents have both completed.
C21_Witness ==
    /\ AllCompleted
    /\ \E c, d \in Handles : c # d /\ Root(c) /\ Root(d)

ParentManifests(p1, p2) == {p[1] : p \in {q \in {p1, p2} : q # None}}

C26_FanOutBound ==
    /\ [](Cardinality(inflight) <= FanOut)
    /\ [][Cardinality(inflight) = FanOut => inflight' \subseteq inflight]_vars

\* The bound is reached again after a copy has been gathered, with entries of the
\* stream still waiting.
C26_Witness ==
    /\ resp = NoResp
    /\ Cardinality(inflight) = FanOut
    /\ Len(yielded) > 0
    /\ Cardinality(Pulled) < NumUploads

\* What the three parts of the fence of c leave in the stores.
FenceWritten(c) ==
    /\ ChangesetKey(CsId(c)) \in blobstore
    /\ CsId(c) \in heads
    /\ FilenodesOf(c) \subseteq filenodes

\* C27: can_be_parent of a handle becomes ok only in a step taken when the commit
\* blob write, heads.add and finalize of that commit have all completed, so that
\* an ok signal always finds their writes in the stores; a step in which a part of
\* the fence fails resolves the signal to an error, and a signal resolved to an
\* error never carries a value afterwards.
C27_SignalAfterFence ==
    /\ [][\A c \in Handles :
            (canBeParent[c] # "ok" /\ canBeParent'[c] = "ok") =>
               fence[c] = FenceOps /\ FenceWritten(c)]_vars
    /\ [](\A c \in Handles : canBeParent[c] = "ok" => FenceWritten(c))
    /\ [][\A c \in Handles :
            /\ (FenceReady(c) /\ completion'[c] \in ErrorKinds) =>
                  canBeParent'[c] = "err"
            /\ canBeParent[c] = "err" => canBeParent'[c] = "err"]_vars

\* One handle has signalled after its fence while its record is still to be
\* inserted; on another one a part of the fence has failed after the commit blob
\* was written, and its signal is an error.
C27_Witness ==
    \E c, d \in Handles :
       /\ canBeParent[c] = "ok" /\ completion[c] = Pending
       /\ canBeParent[d] = "err" /\ completion[d] = "BackendError"
       /\ ChangesetKey(CsId(d)) \in blobstore

\* C28: in a chain of commits, the entries of a dependent are uploaded whatever the
\* state of its parent's signals; its parents_data resolves as soon as the parent's
\* can_be_parent is ok, every part of its fence can run as soon as its entries and
\* parents_data are there, and its own can_be_parent is sent as soon as its fence
\* is through, in all cases whether or not the parent has completed; only its
\* record insert has the parent's completion before it.
C28_Pipelining ==
    /\ [](\A d \in Handles :
            /\ \A e \in Entries :
                  (Running(d) /\ fence[d] = {} /\ e \notin uploaded[d]) =>
                     ENABLED UploadEntryOk(d, e)
            /\ (Running(d) /\ fence[d] = {} /\ ~pdata[d]
                  /\ \A p \in Parents(d) : canBeParent[p] = "ok") =>
                 ENABLED HandleParents(d)
            /\ \A op \in FenceOps :
                  (Running(d) /\ canBeParent[d] = Pending /\ uploaded[d] = Entries
                     /\ pdata[d] /\ op \notin fence[d]) =>
                    ENABLED FenceOk(d, op)
            /\ (Running(d) /\ canBeParent[d] = Pending /\ fence[d] = FenceOps) =>
                 ENABLED SignalParentReady(d)
            /\ HasRecord(CsId(d)) => \A p \in Parents(d) : completion[p] = "ok")
    /\ [][\A d \in Handles :
            RecordInserted(d) => \A p \in Parents(d) : completion[p] = "ok"]_vars

\* Every builder of the chain has uploaded its entries, passed its fence and fired
\* can_be_parent, and no ChangesetRecord has been inserted yet: every dependent is
\* past its fence while its parent has still to complete.
C28_Witness ==
    /\ \E d \in Handles : Parents(d) # {}
    /\ \A c \in Handles :
          /\ canBeParent[c] = "ok"
          /\ completion[c] = Pending
          /\ ~HasRecord(CsId(c))

\* The parents, p1 before p2, of the changesets of a sequence, in its order.
RECURSIVE ParentsInOrder(_)
ParentsInOrder(ids) ==
    IF ids = <<>> THEN <<>>
    ELSE CsParents(Head(ids)) \o ParentsInOrder(Tail(ids))

\* A sequence without the repetitions of its elements.
RECURSIVE FirstOccurrences(_)
FirstOccurrences(ids) ==
    IF ids = <<>> THEN <<>>
    ELSE LET front == FirstOccurrences(SubSeq(ids, 1, Len(ids) - 1))
             last == ids[Len(ids)]
         IN  IF \E i \in 1..Len(front) : front[i] = last THEN front
             ELSE Append(front, last)

\* The changeset that the stream has requested and not yielded yet.
Requested == IF bcstate[1] = "WaitCS" THEN <<bcstate[2]>> ELSE <<>>

\* C29: with the initial heads taken in the order the heads stream gave them, the
\* sequence made of the initial heads followed by the parents (p1 before p2) of
\* every yielded changeset, in yield order, ends with what is left in the frontier,
\* and the first occurrences of what comes before are the changesets yielded so
\* far, in that order, followed by the one requested; so at the end of the stream
\* the yielded sequence is the sequence of first occurrences.  A chain seeded with
\* its tip is yielded from the tip down to the root.
C29_BreadthFirstTraversal ==
    resp[3] \in {"none", "end"} =>
      /\ \E h \in Orderings(heads) :
            /\ Len(h) = Cardinality(heads)
            /\ LET history == h \o ParentsInOrder(yielded)
                   k == Len(history) - Len(frontier)
               IN  /\ Len(frontier) <= Len(history)
                   /\ SubSeq(history, k + 1, Len(history)) = frontier
                   /\ FirstOccurrences(SubSeq(history, 1, k)) = yielded \o Requested
      /\ (/\ resp[3] = "end"
          /\ heads = {CsId(GraphSize)}
          /\ \A c \in Nodes : par[c] = <<c - 1, NoParent>>)
           => yielded = [i \in 1..GraphSize |-> CsId(GraphSize + 1 - i)]

\* The stream over a chain, seeded with the tip, has ended after yielding the tip,
\* its parent, and so on down to the root.
C29_Witness ==
    /\ resp[3] = "end"
    /\ heads = {CsId(GraphSize)}
    /\ \A c \in Nodes : par[c] = <<c - 1, NoParent>>
    /\ Len(yielded) = GraphSize
    /\ yielded[1] = CsId(GraphSize)
    /\ yielded[GraphSize] = CsId(1)

\* C30: the future of upload_entry hands an entry over only in a step after which
\* both its puts have completed successfully, so that every entry handed over has
\* its content blob and its node record written and no put in flight; the failure
\* of a put fails the builder, which hands nothing over afterwards.
C30_BothPutsBeforeHandOver ==
    /\ [](\A c \in Handles : \A e \in uploaded[c] :
            /\ EntryKeys(c, e) \subseteq blobstore
            /\ EntryKeys(c, e) \cap inflight = {})
    /\ [][\A c \in Handles :
            /\ \A e \in uploaded'[c] \ uploaded[c] : EntryKeys(c, e) \subseteq blobstore'
            /\ ~Running(c) => uploaded'[c] = uploaded[c]
            /\ (Running(c) /\ completion'[c] \in ErrorKinds) => uploaded'[c] = {}]_vars

\* One entry has been handed over with both puts done while another entry of the
\* same builder has one put done and the other in flight; and a builder has failed
\* on a put with a blob of the entry written.
C30_Witness ==
    \E c, d \in Handles, e, f \in Entries :
       /\ e \in uploaded[c]
       /\ f \notin uploaded[c]
       /\ EntryKeys(c, f) \cap blobstore # {}
       /\ EntryKeys(c, f) \cap inflight # {}
       /\ completion[d] = "BackendError"
       /\ \E g \in Entries : EntryKeys(d, g) \cap blobstore # {}

\* The finalize part of the fence of builder c completes in this step.
FinalizeDone(c) == "finalize" \in fence[c]' /\ "finalize" \notin fence[c]

\* C31: finalize is the only step of commit creation that writes the filenodes
\* index.  Every step that changes the index is the completion of finalize of one
\* builder and adds the filenodes of that builder, nothing else; the entry uploads,
\* the commit blob write and heads.add leave the index as it is.  So a builder whose
\* finalize has not completed has no filenode in the index, and a builder that
\* fails before finalize's insert leaves none.
C31_OnlyFinalizeWritesFilenodes ==
    /\ [][filenodes' # filenodes =>
            \E c \in Handles :
               FinalizeDone(c) /\ filenodes' = filenodes \cup FilenodesOf(c)]_vars
    /\ [][(blobstore' # blobstore \/ heads' # heads) => filenodes' = filenodes]_vars
    /\ [](\A c \in Handles :
            (Running(c) /\ "finalize" \notin fence[c]) =>
               FilenodesOf(c) \cap filenodes = {})
    /\ [][\A c \in Handles :
            (Running(c) /\ "finalize" \notin fence[c] /\ Failed(c)') =>
               FilenodesOf(c) \cap filenodes' = {}]_vars

\* A builder has failed in its fence after the commit blob write and heads.add and
\* before finalize: its entries, its commit blob and its head are written, and the
\* filenodes index holds none of its filenodes, while it holds those of another
\* builder.
C31_Witness ==
    \E c, d \in Handles :
      /\ Failed(c)
      /\ ChangesetKey(CsId(c)) \in blobstore
      /\ CsId(c) \in heads
      /\ \A e \in Entries : EntryKeys(c, e) \subseteq blobstore
      /\ FilenodesOf(c) \cap filenodes = {}
      /\ FilenodesOf(d) \subseteq filenodes

\* C32: in every reachable state every id of the heads index has its changeset blob
\* in the blobstore, and so a get_changesets traversal that runs next to
\* create_changeset never fails with ChangesetMissing.
C32_HeadsHaveChangesetBlob ==
    /\ \A h \in heads : ChangesetLoadable(h)
    /\ resp[3] # "ChangesetMissing"

\* C33: whenever the can_be_parent signal of a handle has delivered
\* (cs_id, manifest_id), the node record and the content blob of that commit's root
\* manifest and its changeset blob are in the blobstore; so no builder fails with
\* ManifestMissing when handle_parents loads the manifests of its parents.
C33_ParentDataPresent ==
    /\ \A p \in Handles :
          canBeParent[p] = "ok" =>
            ManifestPresent(p) /\ ChangesetLoadable(CsId(p))
    /\ \A c \in Handles : completion[c] # "ManifestMissing"

\* A dependent builder has loaded the manifest of its parent, whose signal has
\* delivered while the parent has not completed yet.
C33_Witness ==
    \E c \in Handles :
      /\ pdata[c]
      /\ \E p \in Parents(c) :
            /\ canBeParent[p] = "ok"
            /\ Running(p)
            /\ ManifestPresent(p)
            /\ ChangesetLoadable(CsId(p))

\* C34: absence of deadlock.  On every graph of create_changeset calls wired
\* through handles, one handle given to several children and one handle given as
\* both p1 and p2 included, with every operation succeeding and every completion
\* polled, no builder resolves to an error and eventually the completion of every
\* builder has resolved successfully with its ChangesetRecord inserted.
C34_EveryCommitCompletes ==
    /\ [](\A c \in Handles : completion[c] \in {Pending, "ok"})
    /\ [](\A c \in Handles : completion[c] = "ok" => HasRecord(CsId(c)))
    /\ <>(\A c \in Handles : completion[c] = "ok" /\ HasRecord(CsId(c)))

\* A graph in which one handle is the parent of two children, one of which has it
\* as both p1 and p2, has completed: every builder has its record.
C34_Witness ==
    /\ \E p, c, d \in Handles :
          /\ c # d
          /\ par[c] = <<p, p>>
          /\ p \in Parents(d)
    /\ \A c \in Handles : completion[c] = "ok" /\ HasRecord(CsId(c))

\* The changesets whose load the stream has started, in order.
Loaded == yielded \o Requested

\* C35: on any graph of changeset blobs, one with a cycle of parent edges or with
\* an id given several times by the heads stream included, the stream starts the
\* load of an id only when it has not seen it, so that no id is loaded twice, and,
\* every load completing, it eventually returns end-of-stream.
C35_StreamTerminates ==
    /\ [](\A i, j \in 1..Len(Loaded) : i # j => Loaded[i] # Loaded[j])
    /\ []({Loaded[i] : i \in 1..Len(Loaded)} = seen)
    /\ [][(bcstate'[1] = "WaitCS" /\ bcstate[1] # "WaitCS") =>
             bcstate'[2] \notin seen]_vars
    /\ <>(resp[3] = "end")

\* The stream has ended over a graph whose parent edges form a cycle through every
\* changeset, with an id given twice by the heads stream: it has yielded every id
\* once.
C35_Witness ==
    /\ resp[3] = "end"
    /\ \A c \in Handles : par[c][1] = (c % RingSize) + 1
    /\ Cardinality(heads) = 1
    /\ Len(yielded) = RingSize

\* C36: create_changeset only adds the id of the new commit to the heads index.
\* No step takes an id out of it, the ids of the new commit's parents included; a
\* step that changes it is heads.add of one builder and adds the id of that
\* builder's commit.  Once the chain C1 -> C2 -> C3 is committed, the ids of all
\* its commits are heads.
C36_HeadsOnlyGrow ==
    /\ [][heads \subseteq heads']_vars
    /\ [][heads' # heads =>
            \E c \in Handles :
               /\ "heads" \in fence'[c] /\ "heads" \notin fence[c]
               /\ heads' = heads \cup {CsId(c)}]_vars
    /\ [](\A c \in Handles :
            canBeParent[c] = "ok" =>
              CsId(c) \in GetHeads /\ \A p \in Parents(c) : CsId(p) \in GetHeads)
    /\ []((\A c \in Handles : completion[c] = "ok") =>
            GetHeads = {CsId(c) : c \in Handles})

\* The chain of three commits is committed: every record is in the index, and the
\* root, the middle commit and the tip are all heads.
C36_Witness ==
    /\ Cardinality(Handles) >= 3
    /\ \A c \in Handles : completion[c] = "ok" /\ HasRecord(CsId(c))
    /\ \A c \in Handles : c > 1 => par[c] = <<c - 1, NoParent>>
    /\ GetHeads = {CsId(c) : c \in Handles}

\* The changeset ids that the can_be_parent signals of the parent handles given to
\* builder c deliver: that of p1, when present, then that of p2, when present.
DeliveredIds(c) ==
    (IF par[c][1] # NoParent THEN <<CsId(par[c][1])>> ELSE <<>>)
      \o (IF par[c][2] # NoParent THEN <<CsId(par[c][2])>> ELSE <<>>)

====
